---- MODULE Spec2Model ----
(***************************************************************************)
(* A model of the rhizo storage core: the versioned file catalog           *)
(* (rhizo_core/src/catalog/file_catalog.rs) and the transaction manager    *)
(* (rhizo_core/src/transaction/manager.rs, log.rs) with the branch heads   *)
(* it moves (rhizo_core/src/branch/manager.rs).                            *)
(*                                                                         *)
(* SpecCatalog : processes sharing one catalog directory call commit and   *)
(*               commit_next_version; every file-system operation of a     *)
(*               call is one step.                                         *)
(* SpecTx      : threads sharing one TransactionManager call begin,        *)
(*               record_read, add_write, commit, abort and                 *)
(*               clear_recent_committed; every lock region of a handler    *)
(*               is one step.                                              *)
(***************************************************************************)
EXTENDS Integers, Sequences, FiniteSets, TLC

\* ------------------------------------------------------------------ bounds
\* Catalog commit calls started in a behaviour of SpecCatalog.
MaxCalls == 3
\* Transaction ids the _sequence file may hand out in SpecTx.
MaxTx == 2
\* Writes staged in one transaction.
MaxWrites == 2
\* API calls started on the transaction manager in SpecTx.
MaxOps == 6
MaxRecover == 2
MaxLogOps == 5
MaxBranchOps == 6
MaxHeadVersion == 3
MaxNameLen == 3
MaxBranchFiles == 2
IntBits == 3
MaxSetElem == 2
NumNodes == 3
MaxOpsPerUpdate == 2
MaxClock == 2
MaxReceives == 2
MaxCommits == 2

\* ------------------------------------------------------------ value sets
Tables == {"users", "orders"}
Hashes == {"h1", "h2"}
Procs == {"p1", "p2"}
Threads == {"w1", "w2"}
Branches == {"main", "feature"}

\* Every version a behaviour can assign fits: one per catalog call, one per
\* write of every commit call.
MaxVer == MaxCalls + MaxOps * MaxWrites
Versions == 1..MaxVer

NoFile == "nofile"
NoProc == "noproc"
ThreadNo(w) == IF w = "w1" THEN 1 ELSE 2
NoThread == "nothread"
NoIntent == 0

VARIABLES
    \* --- catalog directory (file_catalog.rs)
    tdir,        \* tdir[t]: the table directory exists
    vfile,       \* vfile[t][v]: chunk hashes of {v}.json, or NoFile
    latest,      \* latest[t]: content of the latest file, 0 when it is absent
    lockHolder,  \* lockHolder[t]: holder of the advisory lock on t/.lock
    pending,     \* the intent records in .pending/
    nextIntent,  \* intent ids handed out so far (a uuid is fresh)
    \* --- catalog callers
    cpc,         \* cpc[p]: position of process p inside its call
    ccall,       \* ccall[p]: arguments and locals of p's call
    okVers,      \* okVers[t]: versions returned Ok for t, in order of return
    dangling,    \* dangling[t]: a version file was written by a call that failed
    overlapped,  \* overlapped[t]: two calls on t were in flight together
    ncalls,      \* catalog calls started
    \* --- branch heads (branch/manager.rs)
    useBM,       \* the transaction manager was built with a branch manager
    bexists,     \* bexists[b]: the branch file exists
    heads,       \* heads[b][t]: head version of t on b, 0 when t is not in the head
    \* --- transaction log directory (transaction/log.rs)
    seqFile,     \* content of _sequence
    logTx,       \* logTx[k]: the record in tx_{k}.json, or NoTx
    latestCommitted, \* content of _latest_committed, 0 when absent
    committedIndex,  \* tx ids of the lines of _committed_index
    epochMeta,   \* _meta.json of epoch 1
    \* --- TransactionManager (transaction/manager.rs)
    active,      \* active_transactions: tx id -> record, or NoTx
    recent,      \* recent_committed, oldest first
    commitLock,  \* holder of commit_lock
    \* --- manager callers
    tpc,         \* tpc[w]: position of thread w inside its call
    top,         \* top[w]: arguments and locals of w's call
    tres,        \* tres[w]: what w's last completed call returned
    begun,       \* tx ids returned by begin, in order of return
    gsnap,       \* gsnap[k]: history of the snapshot entries of active[k]
    nops,        \* manager calls started
    \* --- catalog recovery (file_catalog.rs, recover_pending_commits)
    report,      \* what the last completed recover_pending_commits returned
    crashed,     \* intents whose process died inside commit_next_version
    nrec,        \* recover_pending_commits calls started
    \* --- transaction-log recovery (transaction/recovery.rs)
    lreport,     \* the RecoveryReport of the last recover_and_apply call
    nlog,        \* calls made on the transaction log directly
    \* --- branch merge (branch/manager.rs, branch/branch.rs)
    fork,        \* fork[b]: the fork_point of branch b
    mres,        \* what the last merge_fast_forward call returned
    nbr,         \* calls made on the branch manager directly
    \* --- branch files (branch/manager.rs, branch_path / list / get)
    bstore,      \* the files of branches/: file stem and the Branch stored in it
    cres,        \* what the last create call returned
    hcall,       \* hcall[p]: the head-changing call process p is inside
    hdone,       \* hdone[p]: what p's finished head-changing call set
    \* --- algebraic merge engine (algebraic/merge.rs, distributed/local_commit.rs)
    mcall,       \* the last merges of three values: inputs and results
    ucall,       \* the last merge_updates of two updates, in both orders
    \* --- CoordinationFreeManager (transaction/coordination_free.rs)
    mgr,         \* clock, local_state, committed_updates (and the updates received)
    mgres,       \* what the last commit_local / receive_update returned
    \* --- SimulatedCluster (distributed/simulation.rs)
    nodes,       \* per node: clock, state, applied_updates, all_updates, outbox
    messages,    \* the messages in transit
    partitions,  \* config.partitions: the node pairs that cannot communicate
    phase        \* history: "partitioned", then "healed", then "requeued"

catVars == <<tdir, vfile, latest, lockHolder, pending, nextIntent>>
callVars == <<cpc, ccall, okVers, dangling, overlapped, ncalls>>
branchVars == <<useBM, bexists, heads>>
logVars == <<seqFile, logTx, latestCommitted, committedIndex, epochMeta>>
mgrVars == <<active, recent, commitLock>>
thrVars == <<tpc, top, tres, begun, gsnap, nops>>
txVars == <<branchVars, logVars, mgrVars, thrVars>>
recVars == <<report, crashed, nrec>>
logRecVars == <<lreport, nlog>>
mergeVars == <<fork, mres, nbr>>
headVars == <<hcall, hdone>>
nameVars == <<bstore, cres, headVars>>
algVars == <<mcall, ucall>>
cfmVars == <<mgr, mgres>>
simVars == <<nodes, messages, partitions, phase>>
cfVars == <<algVars, cfmVars, simVars>>
storeVars == <<catVars, callVars, txVars, recVars, logRecVars, mergeVars, nameVars>>
extVars == <<recVars, logRecVars, mergeVars, nameVars, cfVars>>
vars == <<catVars, callVars, txVars, extVars>>

\* ---------------------------------------------------------------- helpers
Range(n) == [i \in 1..n |-> i]

RECURSIVE SortedSeq(_)
SortedSeq(S) ==
    IF S = {} THEN <<>>
    ELSE LET m == CHOOSE x \in S : \A y \in S : x <= y
         IN <<m>> \o SortedSeq(S \ {m})

\* get_latest_version_num: 0 when the latest file is absent.
GetLatestVersionNum(t) == latest[t]

\* list_versions: the numeric stems of the *.json files of the table, sorted;
\* TableNotFound when the directory is absent.
ListVersions(t) ==
    IF ~tdir[t] THEN "TableNotFound"
    ELSE SortedSeq({v \in Versions : vfile[t][v] # NoFile})

\* get_version(t, Some(v)) / get_version(t, None)
GetVersion(t, v) ==
    IF ~tdir[t] THEN "TableNotFound"
    ELSE IF v \notin Versions \/ vfile[t][v] = NoFile THEN "VersionNotFound"
    ELSE [table |-> t, version |-> v, chunk_hashes |-> vfile[t][v]]

IdleCall == [kind |-> "none", table |-> "users", hashes |-> "h1", version |-> 0,
             intent |-> NoIntent]

\* ---------------------------------------------------------- catalog calls
\* acquire_table_lock: create the directory, open .lock, block until the
\* exclusive lock is granted.
LockFree_NoExclusion(t) == TRUE
LockFree(t) == lockHolder[t] = NoProc

\* commit_next_version step 1: write_pending_intent.
CnvWriteIntent(p, t, h) ==
    /\ cpc[p] = "idle"
    /\ ncalls < MaxCalls
    /\ ncalls' = ncalls + 1
    /\ nextIntent' = nextIntent + 1
    /\ pending' = pending \cup {[id |-> nextIntent + 1, table |-> t, hashes |-> h]}
    /\ ccall' = [ccall EXCEPT ![p] = [kind |-> "next", table |-> t, hashes |-> h,
                                      version |-> 0, intent |-> nextIntent + 1]]
    /\ cpc' = [cpc EXCEPT ![p] = "call"]
    /\ overlapped' = [overlapped EXCEPT ![t] =
           @ \/ \E q \in Procs \ {p} : cpc[q] # "idle" /\ ccall[q].table = t]
    /\ UNCHANGED <<tdir, vfile, latest, lockHolder, okVers, dangling>>
    /\ UNCHANGED <<txVars, extVars>>

\* commit(version): the caller asserts the version number.
CommitCall(p, t, v, h) ==
    /\ cpc[p] = "idle"
    /\ ncalls < MaxCalls
    /\ ncalls' = ncalls + 1
    /\ ccall' = [ccall EXCEPT ![p] = [kind |-> "explicit", table |-> t, hashes |-> h,
                                      version |-> v, intent |-> NoIntent]]
    /\ cpc' = [cpc EXCEPT ![p] = "call"]
    /\ tdir' = [tdir EXCEPT ![t] = TRUE]
    /\ overlapped' = [overlapped EXCEPT ![t] =
           @ \/ \E q \in Procs \ {p} : cpc[q] # "idle" /\ ccall[q].table = t]
    /\ UNCHANGED <<vfile, latest, lockHolder, pending, nextIntent, okVers, dangling>>
    /\ UNCHANGED <<txVars, extVars>>

\* Both calls: acquire the table lock; commit_next_version then reads latest
\* under the lock and takes latest + 1 as the version.
AcquireTableLock(p) ==
    /\ cpc[p] = "call"
    /\ LockFree(ccall[p].table)
    /\ lockHolder' = [lockHolder EXCEPT ![ccall[p].table] = p]
    /\ tdir' = [tdir EXCEPT ![ccall[p].table] = TRUE]
    /\ ccall' = [ccall EXCEPT ![p].version =
           IF ccall[p].kind = "next" THEN GetLatestVersionNum(ccall[p].table) + 1
           ELSE @]
    /\ cpc' = [cpc EXCEPT ![p] = "locked"]
    /\ UNCHANGED <<vfile, latest, pending, nextIntent, okVers, dangling, overlapped, ncalls>>
    /\ UNCHANGED <<txVars, extVars>>

\* The lock file handle is kept open after the call: the lock stays held.
ReleasedBy_Never(p, t) == lockHolder

\* The lock file handle is dropped: the lock is released if p holds it.
ReleasedBy(p, t) ==
    [lockHolder EXCEPT ![t] = IF @ = p THEN NoProc ELSE @]

\* commit / commit_inner: the version sequence check.
VersionAccepted_AnyNewer(t, v) == v > GetLatestVersionNum(t)
VersionAccepted(t, v) == v = GetLatestVersionNum(t) + 1

\* The two renames of commit_inner in the opposite order: latest first.
WriteVersionFile_LatestFirst(p) ==
    /\ cpc[p] = "locked"
    /\ VersionAccepted(ccall[p].table, ccall[p].version)
    /\ latest' = [latest EXCEPT ![ccall[p].table] = ccall[p].version]
    /\ cpc' = [cpc EXCEPT ![p] = "written"]
    /\ UNCHANGED <<tdir, vfile, lockHolder, pending, nextIntent, ccall, okVers,
                   dangling, overlapped, ncalls>>
    /\ UNCHANGED <<txVars, extVars>>

\* commit / commit_inner: the version must be latest + 1, else InvalidVersion;
\* then the version file is written (temp file, rename).
WriteVersionFile(p) ==
    LET t == ccall[p].table
        v == ccall[p].version
    IN /\ cpc[p] = "locked"
       /\ IF ~VersionAccepted(t, v)
          THEN \* Err(InvalidVersion): the lock is dropped, the intent stays
               /\ lockHolder' = ReleasedBy(p, t)
               /\ cpc' = [cpc EXCEPT ![p] = "idle"]
               /\ ccall' = [ccall EXCEPT ![p] = IdleCall]
               /\ UNCHANGED <<vfile, dangling>>
          ELSE /\ vfile' = [vfile EXCEPT ![t][v] = ccall[p].hashes]
               /\ dangling' = [dangling EXCEPT ![t] = FALSE]
               /\ cpc' = [cpc EXCEPT ![p] = "written"]
               /\ UNCHANGED <<lockHolder, ccall>>
       /\ UNCHANGED <<tdir, latest, pending, nextIntent, okVers, overlapped, ncalls>>
       /\ UNCHANGED <<txVars, extVars>>

\* The latest pointer is replaced (temp file, rename).
UpdateLatest(p) ==
    /\ cpc[p] = "written"
    /\ latest' = [latest EXCEPT ![ccall[p].table] = ccall[p].version]
    /\ cpc' = [cpc EXCEPT ![p] = "updated"]
    /\ UNCHANGED <<tdir, vfile, lockHolder, pending, nextIntent, ccall, okVers,
                   dangling, overlapped, ncalls>>
    /\ UNCHANGED <<txVars, extVars>>

\* fs::write / fs::rename of latest returns an error: `?` returns it, the lock
\* is dropped, the version file and the intent stay.
UpdateLatestFails(p) ==
    /\ cpc[p] = "written"
    /\ lockHolder' = ReleasedBy(p, ccall[p].table)
    /\ dangling' = [dangling EXCEPT ![ccall[p].table] = TRUE]
    /\ cpc' = [cpc EXCEPT ![p] = "idle"]
    /\ ccall' = [ccall EXCEPT ![p] = IdleCall]
    /\ UNCHANGED <<tdir, vfile, latest, pending, nextIntent, okVers, overlapped, ncalls>>
    /\ UNCHANGED <<txVars, extVars>>

\* Ok(version) returned without remove_pending_intent.
CommitReturn_KeepsIntent(p) ==
    /\ cpc[p] = "updated"
    /\ lockHolder' = ReleasedBy(p, ccall[p].table)
    /\ okVers' = [okVers EXCEPT ![ccall[p].table] = Append(@, ccall[p].version)]
    /\ cpc' = [cpc EXCEPT ![p] = "idle"]
    /\ ccall' = [ccall EXCEPT ![p] = IdleCall]
    /\ UNCHANGED <<tdir, vfile, latest, pending, nextIntent, dangling, overlapped, ncalls>>
    /\ UNCHANGED <<txVars, extVars>>

\* Ok(version): the lock is dropped, commit_next_version removes its intent.
CommitReturn(p) ==
    /\ cpc[p] = "updated"
    /\ lockHolder' = ReleasedBy(p, ccall[p].table)
    /\ pending' = {i \in pending : i.id # ccall[p].intent}
    /\ okVers' = [okVers EXCEPT ![ccall[p].table] = Append(@, ccall[p].version)]
    /\ cpc' = [cpc EXCEPT ![p] = "idle"]
    /\ ccall' = [ccall EXCEPT ![p] = IdleCall]
    /\ UNCHANGED <<tdir, vfile, latest, nextIntent, dangling, overlapped, ncalls>>
    /\ UNCHANGED <<txVars, extVars>>


\* ------------------------------------------------- crash and recovery
\* The process running a catalog call dies: its call is abandoned where it
\* stands, the operating system drops its advisory lock, and nothing it wrote
\* (intent, version file, latest) is undone.  A process that dies inside
\* commit_next_version is recorded with the step it died at.
Crash(p) ==
    /\ cpc[p] \in {"call", "locked", "written", "updated"}
    /\ lockHolder' = ReleasedBy(p, ccall[p].table)
    /\ crashed' =
          IF ccall[p].kind = "next"
          THEN crashed \cup {[id |-> ccall[p].intent, at |-> cpc[p],
                              present |-> \E i \in pending : i.id = ccall[p].intent,
                              read |-> FALSE]}
          ELSE crashed
    /\ cpc' = [cpc EXCEPT ![p] = "idle"]
    /\ ccall' = [ccall EXCEPT ![p] = IdleCall]
    /\ UNCHANGED <<tdir, vfile, latest, pending, nextIntent, okVers, dangling,
                   overlapped, ncalls, report, nrec>>
    /\ UNCHANGED <<txVars, logRecVars, mergeVars, nameVars, cfVars>>

\* is_committed(table, chunk_hashes): "no" when the table directory or latest is absent, else the
\* chunk hashes of the LATEST version are compared with the intent's; "err"
\* when get_version(table, Some(latest)) fails.
IsCommittedChunks_Never(t, h) == "no"
IsCommittedChunks(t, h) ==
    IF ~tdir[t] THEN "no"
    ELSE IF GetLatestVersionNum(t) = 0 THEN "no"
    ELSE IF vfile[t][GetLatestVersionNum(t)] = NoFile THEN "err"
    ELSE IF vfile[t][GetLatestVersionNum(t)] = h THEN "yes" ELSE "no"

NoReport == [result |-> "none", orphaned |-> {}, dropped |-> {}]

\* recover_pending_commits: every intent file of .pending is read; an intent
\* that is_committed is removed, any other is pushed to the result and removed.
\* An error of is_committed returns at once, after the entries handled so far.
\* read_dir yields the entries in no specified order, so the returned Vec is
\* kept as the set of its elements.  No lock is taken.
Recover(p) ==
    /\ cpc[p] = "idle"
    /\ nrec < MaxRecover
    /\ nrec' = nrec + 1
    /\ LET failing == {i \in pending : IsCommittedChunks(i.table, i.hashes) = "err"}
       IN IF failing = {}
          THEN /\ pending' = {}
               /\ report' = [result |-> "Ok",
                             orphaned |-> {i \in pending :
                                             IsCommittedChunks(i.table, i.hashes) = "no"},
                             dropped |-> {i \in pending :
                                             IsCommittedChunks(i.table, i.hashes) = "yes"}]
          ELSE \E S \in SUBSET (pending \ failing) :
               /\ pending' = pending \ S
               /\ report' = [result |-> "Err", orphaned |-> {},
                             dropped |-> {i \in S :
                                             IsCommittedChunks(i.table, i.hashes) = "yes"}]
    /\ crashed' = {[c EXCEPT !.read = @ \/ \E i \in pending \ pending' : i.id = c.id] :
                     c \in crashed}
    /\ UNCHANGED <<tdir, vfile, latest, lockHolder, nextIntent, callVars>>
    /\ UNCHANGED <<txVars, logRecVars, mergeVars, nameVars, cfVars>>


\* ===================================================== transaction manager
TxIds == 1..MaxTx
Absent == -1
\* Versions a caller may pass to record_read.
ReadVersions == 0..1

\* TransactionRecord (transaction/types.rs); tx_id 0 stands for "no record".
NoTx == [tx_id |-> 0, branch |-> "main", read_snapshot |-> [t \in Tables |-> Absent],
         writes |-> <<>>, status |-> "None"]

\* TransactionRecord::new
NewTx(id, b) == [tx_id |-> id, branch |-> b, read_snapshot |-> [t \in Tables |-> Absent],
                 writes |-> <<>>, status |-> "Active"]

IsActive(tx) == tx.status = "Active"
IsPreparing(tx) == tx.status = "Preparing"
IsCommitted(tx) == tx.status = "Committed"

WrittenTables(tx) == {tx.writes[i].table : i \in 1..Len(tx.writes)}

\* The branch a write targets: its own override, else the transaction's branch.
WriteBranch(tx, w) == IF w.branch = "none" THEN tx.branch ELSE w.branch

\* What the caller's last call returned.
Res(op, k, kind) == [op |-> op, tx |-> k, kind |-> kind, tables |-> {},
                     table |-> "", rv |-> 0, curv |-> 0]
WriteConflict(op, k, ts) == [Res(op, k, "WriteConflict") EXCEPT !.tables = ts]
SnapshotConflict(op, k, t, rv, cur) ==
    [Res(op, k, "SnapshotConflict") EXCEPT !.table = t, !.rv = rv, !.curv = cur]
NoRes == Res("none", 0, "none")

NoSnapHistory == [honest |-> {}, pend |-> {}, pendB |-> {}, chg |-> {}, chgB |-> {}]

IdleOp == [op |-> "none", tx |-> 0, branch |-> "main", next |-> 0, clone |-> NoTx,
           idx |-> 0, cv |-> [t \in Tables |-> 0], assigned |-> <<>>,
           g |-> NoSnapHistory,
           pre |-> [latest |-> [t \in Tables |-> 0],
                    heads |-> [b \in Branches |-> [t \in Tables |-> 0]],
                    bexists |-> [b \in Branches |-> FALSE]]]

\* EpochConfig::single_node().max_transactions, which initialize_if_needed
\* stores and with_config reads back as max_recent_committed.
MaxRecentCommitted == 1

\* capture_snapshot: the branch's head map, or without a branch manager the
\* latest version of every table that has one.
CaptureSnapshot(b) ==
    IF useBM
    THEN [t \in Tables |-> IF heads[b][t] = 0 THEN Absent ELSE heads[b][t]]
    ELSE [t \in Tables |-> IF tdir[t] /\ latest[t] # 0 THEN latest[t] ELSE Absent]

\* validate_snapshot's current version of a table: the head of the
\* transaction's branch, or the catalog's latest version; 0 stands for None.
CurrentVersion(b, t) ==
    IF useBM THEN heads[b][t]
    ELSE IF tdir[t] /\ latest[t] # 0 /\ vfile[t][latest[t]] # NoFile THEN latest[t] ELSE 0

\* TableLevelConflictDetector::detect: the tables both transactions write.
Detect_Nothing(tx1, tx2) == {}
Detect(tx1, tx2) == WrittenTables(tx1) \cap WrittenTables(tx2)

\* check_conflicts: the possible results, "ok" or a WriteConflict. The recent
\* buffer is scanned oldest first; the active map in hash order.
CheckConflicts(tx) ==
    LET hits == {i \in 1..Len(recent) :
                    recent[i].tx_id < tx.tx_id /\ Detect(tx, recent[i]) # {}}
        prep == {k \in TxIds : /\ active[k] # NoTx
                               /\ active[k].tx_id # tx.tx_id
                               /\ IsPreparing(active[k])
                               /\ Detect(tx, active[k]) # {}}
    IN IF hits # {}
       THEN LET i == CHOOSE x \in hits : \A y \in hits : x <= y
            IN {WriteConflict("commit", tx.tx_id, Detect(tx, recent[i]))}
       ELSE IF prep # {}
       THEN {WriteConflict("commit", tx.tx_id, Detect(tx, active[k])) : k \in prep}
       ELSE {Res("commit", tx.tx_id, "ok")}

\* validate_snapshot: the possible results. The snapshot is a hash map, so
\* any table whose version moved may be the one reported.
ValidateSnapshot_Skipped(tx) == {Res("commit", tx.tx_id, "ok")}
ValidateSnapshot(tx) ==
    LET moved == {t \in Tables : /\ tx.read_snapshot[t] # Absent
                                 /\ CurrentVersion(tx.branch, t) # 0
                                 /\ CurrentVersion(tx.branch, t) # tx.read_snapshot[t]}
    IN IF moved = {} THEN {Res("commit", tx.tx_id, "ok")}
       ELSE {SnapshotConflict("commit", tx.tx_id, t, tx.read_snapshot[t],
                              CurrentVersion(tx.branch, t)) : t \in moved}

\* commit, lines 214-218: check_conflicts, then validate_snapshot.
CommitChecks(tx) ==
    IF \E r \in CheckConflicts(tx) : r.kind # "ok"
    THEN CheckConflicts(tx)
    ELSE ValidateSnapshot(tx)

\* The commit_lock mutex is free.
CommitLockFree_Always == TRUE
CommitLockFree == commitLock = NoThread

\* recent.push_back(tx); while recent.len() > max_recent_committed pop_front().
RECURSIVE Evict(_)
Evict(q) == IF Len(q) > MaxRecentCommitted THEN Evict(Tail(q)) ELSE q
PushRecent(q, tx) == Evict(Append(q, tx))

\* Calls are served by interchangeable threads: a new call runs on the first
\* idle one.
FirstIdle(w) == /\ tpc[w] = "idle"
                /\ \A x \in Threads : tpc[x] = "idle" => ThreadNo(w) <= ThreadNo(x)

\* --------------------------------------------------------------- begin
\* next_tx_id, lines 90-101: read _sequence.
BeginReadSequence(w, b) ==
    /\ FirstIdle(w)
    /\ nops < MaxOps
    /\ seqFile < MaxTx
    /\ nops' = nops + 1
    /\ top' = [top EXCEPT ![w] = [IdleOp EXCEPT !.op = "begin", !.branch = b,
                                                !.next = seqFile + 1]]
    /\ tpc' = [tpc EXCEPT ![w] = "b_write"]
    /\ UNCHANGED <<catVars, callVars, extVars, branchVars, logVars, mgrVars, tres, begun, gsnap>>

\* next_tx_id, lines 103-108: write _sequence; then the rest of begin: the
\* snapshot is captured, the record inserted in the active map and persisted,
\* the epoch metadata extended.
BeginFinish(w) ==
    LET k == top[w].next
        b == top[w].branch
        tx == [NewTx(k, b) EXCEPT !.read_snapshot = CaptureSnapshot(b)]
    IN /\ tpc[w] = "b_write"
       /\ seqFile' = k
       /\ IF useBM /\ ~bexists[b]
          THEN \* capture_snapshot: Err(BranchError)
               /\ tres' = [tres EXCEPT ![w] = Res("begin", k, "BranchError")]
               /\ UNCHANGED <<active, logTx, epochMeta, begun, gsnap>>
          ELSE /\ active' = [active EXCEPT ![k] = tx]
               /\ logTx' = [logTx EXCEPT ![k] = tx]
               /\ epochMeta' = [epochMeta EXCEPT !.transactions = Append(@, k)]
               /\ begun' = Append(begun, k)
               /\ gsnap' = [gsnap EXCEPT ![k] =
                      [NoSnapHistory EXCEPT
                          !.honest = {t \in Tables : tx.read_snapshot[t] # Absent}]]
               /\ UNCHANGED tres
       /\ tpc' = [tpc EXCEPT ![w] = "idle"]
       /\ top' = [top EXCEPT ![w] = IdleOp]
       /\ UNCHANGED <<catVars, callVars, extVars, branchVars, latestCommitted, committedIndex,
                      recent, commitLock, nops>>

\* What callers pass in. Without a branch manager branch names are labels
\* that nothing reads, so callers stay on the default branch and use both
\* tables; with one they use both branches on one table.
TxTables == IF useBM THEN {"users"} ELSE Tables
BeginBranches == IF useBM THEN Branches ELSE {"main"}
WriteBranches == IF useBM THEN {"none", "feature"} ELSE {"none"}

\* The chunk hashes a caller hands to add_write: the first write of a
\* transaction carries h1, the next h2, and so on in turn.
NextHash(tx) == IF Len(tx.writes) % 2 = 0 THEN "h1" ELSE "h2"

\* ------------------------------------------------ record_read, add_write
\* Both run under the write lock of the active map. A call for a transaction
\* that is missing or not active returns an error and changes nothing.
RecordRead(k, t, v) ==
    /\ nops < MaxOps
    /\ active[k] # NoTx
    /\ IsActive(active[k])
    /\ active[k].read_snapshot[t] # v
    /\ nops' = nops + 1
    /\ active' = [active EXCEPT ![k].read_snapshot[t] = v]
    /\ gsnap' = [gsnap EXCEPT ![k] =
           [honest |-> IF v = CurrentVersion(active[k].branch, t)
                       THEN @.honest \cup {t} ELSE @.honest \ {t},
            pend |-> @.pend \ {t}, pendB |-> @.pendB \ {t},
            chg |-> @.chg \ {t}, chgB |-> @.chgB \ {t}]]
    /\ UNCHANGED <<catVars, callVars, extVars, branchVars, logVars, recent, commitLock,
                   tpc, top, tres, begun>>

AddWrite(k, t, h, b) ==
    /\ nops < MaxOps
    /\ active[k] # NoTx
    /\ IsActive(active[k])
    /\ Len(active[k].writes) < MaxWrites
    /\ nops' = nops + 1
    /\ active' = [active EXCEPT ![k].writes =
           Append(@, [table |-> t, chunk_hashes |-> h, branch |-> b,
                      new_version |-> GetLatestVersionNum(t) + 1])]
    /\ UNCHANGED <<catVars, callVars, extVars, branchVars, logVars, recent, commitLock,
                   tpc, top, tres, begun, gsnap>>

\* ---------------------------------------------------------------- commit
\* History of the snapshot entries of record rec, kept beside it. A write of
\* the committing transaction ctx to a table rec has an entry for is pending
\* (pend) from the moment the catalog holds it; it is also pending in pendB
\* when the entry was the current version when taken and the write moved what
\* validate_snapshot reads for rec: the catalog, or the head of rec's branch.
MarkApplied(g, rec, ctx, wr) ==
    IF rec.tx_id = ctx.tx_id \/ rec.read_snapshot[wr.table] = Absent THEN g
    ELSE [g EXCEPT !.pend = @ \cup {wr.table},
                   !.pendB = IF ~useBM /\ wr.table \in g.honest
                             THEN @ \cup {wr.table} ELSE @]

MarkHeadMoved(g, rec, ctx, wr, v) ==
    IF \/ heads[WriteBranch(ctx, wr)][wr.table] = v
       \/ rec.tx_id = ctx.tx_id
       \/ rec.read_snapshot[wr.table] = Absent
       \/ rec.branch # WriteBranch(ctx, wr)
       \/ wr.table \notin g.honest
    THEN g
    ELSE [g EXCEPT !.pendB = @ \cup {wr.table}]

\* The committing transaction is committed: its pending writes count.
MarkCommitted(g) == [g EXCEPT !.chg = @ \cup g.pend, !.chgB = @ \cup g.pendB,
                              !.pend = {}, !.pendB = {}]
\* The commit failed: they do not.
MarkFailed(g) == [g EXCEPT !.pend = {}, !.pendB = {}]

\* commit, lines 196-206: clone the record out of the active map.
CommitStart(w, k) ==
    /\ FirstIdle(w)
    /\ nops < MaxOps
    /\ nops' = nops + 1
    /\ IF active[k] = NoTx
       THEN /\ tres' = [tres EXCEPT ![w] = Res("commit", k, "TransactionNotFound")]
            /\ UNCHANGED <<tpc, top>>
       ELSE IF ~IsActive(active[k])
       THEN /\ tres' = [tres EXCEPT ![w] = Res("commit", k, "TransactionNotActive")]
            /\ UNCHANGED <<tpc, top>>
       ELSE /\ top' = [top EXCEPT ![w] = [IdleOp EXCEPT !.op = "commit", !.tx = k,
                                          !.clone = active[k], !.g = gsnap[k]]]
            /\ tpc' = [tpc EXCEPT ![w] = "c_lock"]
            /\ UNCHANGED tres
    /\ UNCHANGED <<catVars, callVars, extVars, branchVars, logVars, mgrVars, begun, gsnap>>

\* The guard of commit_lock is dropped when commit returns.
ReleaseCommitLock(w) == IF commitLock = w THEN NoThread ELSE commitLock

\* commit returns Err(r): the thread is idle again, the histories forget the
\* pending writes.
CommitFails_KeepsLock(w, r) ==
    /\ tres' = [tres EXCEPT ![w] = r]
    /\ commitLock' = w
    /\ tpc' = [tpc EXCEPT ![w] = "idle"]
    /\ top' = [x \in Threads |-> IF x = w THEN IdleOp
                                 ELSE [top[x] EXCEPT !.g = MarkFailed(@)]]
    /\ gsnap' = [k \in TxIds |-> MarkFailed(gsnap[k])]
CommitFails(w, r) ==
    /\ tres' = [tres EXCEPT ![w] = r]
    /\ commitLock' = ReleaseCommitLock(w)
    /\ tpc' = [tpc EXCEPT ![w] = "idle"]
    /\ top' = [x \in Threads |-> IF x = w THEN IdleOp
                                 ELSE [top[x] EXCEPT !.g = MarkFailed(@)]]
    /\ gsnap' = [k \in TxIds |-> MarkFailed(gsnap[k])]

\* commit, lines 211-221: commit_lock.lock(), then the two checks under it; an
\* error returns, else the clone is marked committed.
CommitCheck(w) ==
    /\ tpc[w] = "c_lock"
    /\ CommitLockFree
    /\ \E r \in CommitChecks(top[w].clone) :
          IF r.kind # "ok"
          THEN CommitFails(w, r)
          ELSE /\ commitLock' = w
               /\ top' = [top EXCEPT ![w].clone.status = "Committed", ![w].idx = 1,
                                     ![w].pre = [latest |-> latest, heads |-> heads,
                                                 bexists |-> bexists]]
               /\ tpc' = [tpc EXCEPT ![w] = "c_apply"]
               /\ UNCHANGED <<tres, gsnap>>
    /\ UNCHANGED <<catVars, callVars, extVars, branchVars, logVars, active, recent,
                   begun, nops>>

\* apply_writes: one catalog.commit_next_version per write. The call waits for
\* the table's advisory lock and runs under it: its intent is written and
\* removed, the version file and latest are written, the lock is dropped.
CommitApplyWrite(w) ==
    LET tx == top[w].clone
        i == top[w].idx
    IN /\ tpc[w] = "c_apply"
       /\ i <= Len(tx.writes)
       /\ LET t == tx.writes[i].table
              v == GetLatestVersionNum(t) + 1
          IN /\ v \in Versions
             /\ LockFree(t)
             /\ tdir' = [tdir EXCEPT ![t] = TRUE]
             /\ vfile' = [vfile EXCEPT ![t][v] = tx.writes[i].chunk_hashes]
             /\ latest' = [latest EXCEPT ![t] = v]
             /\ top' = [x \in Threads |->
                          IF x = w
                          THEN [top[x] EXCEPT !.cv[t] = v, !.assigned = Append(@, v),
                                              !.idx = i + 1]
                          ELSE [top[x] EXCEPT !.g =
                                    MarkApplied(@, top[x].clone, tx, tx.writes[i])]]
             /\ gsnap' = [k \in TxIds |->
                            MarkApplied(gsnap[k], active[k], tx, tx.writes[i])]
       /\ UNCHANGED <<lockHolder, pending, nextIntent, callVars, extVars, branchVars, logVars,
                      mgrVars, tpc, tres, begun, nops>>

\* apply_writes: commit_next_version returns an I/O error from writing its
\* intent, before any file of the table is touched; commit returns
\* Err(CatalogError).
CommitApplyFails(w) ==
    /\ tpc[w] = "c_apply"
    /\ top[w].idx <= Len(top[w].clone.writes)
    /\ CommitFails(w, Res("commit", top[w].tx, "CatalogError"))
    /\ UNCHANGED <<catVars, callVars, extVars, branchVars, logVars, active, recent,
                   begun, nops>>

\* apply_writes returned: update_branch_heads follows when a branch manager
\* is configured.
CommitApplyDone(w) ==
    /\ tpc[w] = "c_apply"
    /\ top[w].idx > Len(top[w].clone.writes)
    /\ top' = [top EXCEPT ![w].idx = 1]
    /\ tpc' = [tpc EXCEPT ![w] = IF useBM THEN "c_heads" ELSE "c_persist"]
    /\ UNCHANGED <<catVars, callVars, extVars, branchVars, logVars, mgrVars,
                   tres, begun, gsnap, nops>>

\* The version update_branch_heads gives a write: the entry of its table in
\* committed_versions.
HeadVersion(cv, wr) == IF cv[wr.table] # 0 THEN cv[wr.table] ELSE wr.new_version

\* update_branch_heads: one bm.update_head per write; a missing branch is
\* Err(BranchError).
CommitUpdateHead(w) ==
    LET tx == top[w].clone
        i == top[w].idx
    IN /\ tpc[w] = "c_heads"
       /\ i <= Len(tx.writes)
       /\ LET b == WriteBranch(tx, tx.writes[i])
          IN IF ~bexists[b]
             THEN /\ CommitFails(w, Res("commit", top[w].tx, "BranchError"))
                  /\ UNCHANGED heads
             ELSE /\ heads' = [heads EXCEPT ![b][tx.writes[i].table] =
                                   HeadVersion(top[w].cv, tx.writes[i])]
                  /\ top' = [x \in Threads |->
                               IF x = w THEN [top[x] EXCEPT !.idx = i + 1]
                               ELSE [top[x] EXCEPT !.g =
                                       MarkHeadMoved(@, top[x].clone, tx, tx.writes[i],
                                           HeadVersion(top[w].cv, tx.writes[i]))]]
                  /\ gsnap' = [k \in TxIds |->
                                 MarkHeadMoved(gsnap[k], active[k], tx, tx.writes[i],
                                               HeadVersion(top[w].cv, tx.writes[i]))]
                  /\ UNCHANGED <<tres, commitLock, tpc>>
       /\ UNCHANGED <<catVars, callVars, extVars, useBM, bexists, logVars, active, recent,
                      begun, nops>>

CommitHeadsDone(w) ==
    /\ tpc[w] = "c_heads"
    /\ top[w].idx > Len(top[w].clone.writes)
    /\ tpc' = [tpc EXCEPT ![w] = "c_persist"]
    /\ UNCHANGED <<catVars, callVars, extVars, branchVars, logVars, mgrVars,
                   top, tres, begun, gsnap, nops>>

\* write_transaction of a committed record: tx_{k}.json, _latest_committed,
\* _committed_index.
WriteCommitted(tx) ==
    /\ logTx' = [logTx EXCEPT ![tx.tx_id] = tx]
    /\ latestCommitted' = tx.tx_id
    /\ committedIndex' = Append(committedIndex, tx.tx_id)

\* commit, lines 229-247: persist the record, count the commit in the epoch,
\* push the record on recent_committed. _commit_guard is a named binding of
\* the function body, so commit_lock stays held until commit returns.
CommitPersist(w) ==
    LET tx == top[w].clone
    IN /\ tpc[w] = "c_persist"
       /\ WriteCommitted(tx)
       /\ epochMeta' = [epochMeta EXCEPT !.committed_count = @ + 1]
       /\ recent' = PushRecent(recent, tx)
       /\ UNCHANGED commitLock
       /\ gsnap' = [k \in TxIds |-> MarkCommitted(gsnap[k])]
       /\ top' = [x \in Threads |->
                    IF x = w THEN top[x] ELSE [top[x] EXCEPT !.g = MarkCommitted(@)]]
       /\ tpc' = [tpc EXCEPT ![w] = "c_remove"]
       /\ UNCHANGED <<catVars, callVars, extVars, branchVars, seqFile, active, tres, begun, nops>>

\* commit, lines 253-259: remove from the active map, Ok(()); the guard of
\* commit_lock is dropped with the function's locals.
CommitRemove(w) ==
    /\ tpc[w] = "c_remove"
    /\ active' = [active EXCEPT ![top[w].tx] = NoTx]
    /\ tres' = [tres EXCEPT ![w] = Res("commit", top[w].tx, "ok")]
    /\ commitLock' = ReleaseCommitLock(w)
    /\ tpc' = [tpc EXCEPT ![w] = "idle"]
    /\ top' = [top EXCEPT ![w] = IdleOp]
    /\ UNCHANGED <<catVars, callVars, extVars, branchVars, logVars, recent,
                   begun, gsnap, nops>>

\* ----------------------------------------------------------------- abort
\* abort runs under the write lock of the active map: the record is marked
\* aborted, persisted, counted in the epoch and removed. A call for a missing
\* transaction returns an error and changes nothing.
Abort(k) ==
    /\ nops < MaxOps
    /\ active[k] # NoTx
    /\ IsActive(active[k])
    /\ nops' = nops + 1
    /\ logTx' = [logTx EXCEPT ![k] = [active[k] EXCEPT !.status = "Aborted"]]
    /\ epochMeta' = [epochMeta EXCEPT !.aborted_count = @ + 1]
    /\ active' = [active EXCEPT ![k] = NoTx]
    /\ UNCHANGED <<catVars, callVars, extVars, branchVars, seqFile, latestCommitted,
                   committedIndex, recent, commitLock, tpc, top, tres, begun, gsnap>>

\* clear_recent_committed
ClearRecentCommitted ==
    /\ nops < MaxOps
    /\ recent # <<>>
    /\ nops' = nops + 1
    /\ recent' = <<>>
    /\ UNCHANGED <<catVars, callVars, extVars, branchVars, logVars, active, commitLock,
                   tpc, top, tres, begun, gsnap>>

\* BranchManager::create(b, from main): the new branch copies main's head.
BranchCreate(b) ==
    /\ useBM
    /\ nops < MaxOps
    /\ ~bexists[b]
    /\ nops' = nops + 1
    /\ bexists' = [bexists EXCEPT ![b] = TRUE]
    /\ heads' = [heads EXCEPT ![b] = heads["main"]]
    /\ UNCHANGED <<catVars, callVars, extVars, useBM, logVars, mgrVars, tpc, top, tres,
                   begun, gsnap>>

\* ------------------------------------------------------ branch merge
HeadVersions == 1..MaxHeadVersion
EmptyHead == [t \in Tables |-> 0]
\* fork_point: None for a root branch, Some(parent head) for a created one.
NoForkPoint == [some |-> FALSE, head |-> EmptyHead]
ForkPoint(h) == [some |-> TRUE, head |-> h]

\* BranchDiff::compute_with_base over a source head, a target head and the
\* source's fork point; 0 stands for a table that is not in a head.  The
\* sorted vectors are kept as the sets of their table names.
Classify(src, tgt, base, t) ==
    IF src[t] # 0 /\ tgt[t] # 0 /\ src[t] = tgt[t] THEN "unchanged"
    ELSE IF src[t] # 0 /\ tgt[t] # 0
    THEN IF ~base.some THEN "modified"
         ELSE IF base.head[t] # 0 /\ src[t] # base.head[t] /\ tgt[t] = base.head[t]
         THEN "source_only_changes"
         ELSE IF base.head[t] # 0 /\ tgt[t] # base.head[t] /\ src[t] = base.head[t]
         THEN "target_only_changes"
         ELSE "modified"
    ELSE IF src[t] # 0 THEN "added_in_source"
    ELSE IF tgt[t] # 0 THEN "added_in_target"
    ELSE "absent"

BranchDiff(src, tgt, base) ==
    [unchanged |-> {t \in Tables : Classify(src, tgt, base, t) = "unchanged"},
     modified |-> {t \in Tables : Classify(src, tgt, base, t) = "modified"},
     added_in_source |-> {t \in Tables : Classify(src, tgt, base, t) = "added_in_source"},
     added_in_target |-> {t \in Tables : Classify(src, tgt, base, t) = "added_in_target"},
     source_only_changes |->
         {t \in Tables : Classify(src, tgt, base, t) = "source_only_changes"},
     target_only_changes |->
         {t \in Tables : Classify(src, tgt, base, t) = "target_only_changes"}]

\* BranchManager::diff(source, target): the base is the source's fork point.
Diff(s, i) == BranchDiff(heads[s], heads[i], fork[s])

\* What the last merge_fast_forward returned, with the diff it worked on and
\* the heads of all branches as the call left them (after).
NoMerge == [result |-> "none", source |-> "main", into |-> "main",
            forked |-> FALSE, diff |-> BranchDiff(EmptyHead, EmptyHead, NoForkPoint),
            after |-> [b \in Branches |-> EmptyHead]]
MergeResult(r, s, i) ==
    [result |-> r, source |-> s, into |-> i, forked |-> fork[s].some, diff |-> Diff(s, i),
     after |-> heads]

\* BranchManager::update_head(branch, table, version)
UpdateHead(b, t, v) ==
    /\ nbr < MaxBranchOps
    /\ bexists[b]
    /\ nbr' = nbr + 1
    /\ heads' = [heads EXCEPT ![b][t] = v]
    /\ UNCHANGED <<catVars, callVars, recVars, logRecVars, nameVars, cfVars, useBM, bexists, logVars,
                   mgrVars, thrVars, fork, mres>>

\* BranchManager::create(name, Some(from)): Branch::from_branch copies the
\* parent's head as head and as fork point.
CreateBranch(b, from) ==
    /\ nbr < MaxBranchOps
    /\ ~bexists[b]
    /\ bexists[from]
    /\ nbr' = nbr + 1
    /\ bexists' = [bexists EXCEPT ![b] = TRUE]
    /\ heads' = [heads EXCEPT ![b] = heads[from]]
    /\ fork' = [fork EXCEPT ![b] = ForkPoint(heads[from])]
    /\ UNCHANGED <<catVars, callVars, recVars, logRecVars, nameVars, cfVars, useBM, logVars,
                   mgrVars, thrVars, mres>>

\* The source's version wherever the source has the table.
MergedHead_SourceWins(s, i) ==
    [t \in Tables |-> IF heads[s][t] # 0 THEN heads[s][t] ELSE heads[i][t]]

\* The target head merge_fast_forward saves when it does not refuse.
MergedHead(s, i) ==
    IF fork[s].some
    THEN [t \in Tables |->
            IF t \in Diff(s, i).source_only_changes \cup Diff(s, i).added_in_source
            THEN heads[s][t] ELSE heads[i][t]]
    ELSE [t \in Tables |->
            IF heads[s][t] # 0 /\ heads[s][t] > heads[i][t]
            THEN heads[s][t] ELSE heads[i][t]]

\* The merge refuses: has_conflicts of the three-way diff.
MergeRefused_Never(s, i) == FALSE
MergeRefused(s, i) == fork[s].some /\ Diff(s, i).modified # {}

\* BranchManager::merge_fast_forward(source, into)
MergeFastForward(s, i) ==
    /\ nbr < MaxBranchOps
    /\ nbr' = nbr + 1
    /\ IF ~bexists[s] \/ ~bexists[i]
       THEN /\ mres' = [NoMerge EXCEPT !.result = "BranchNotFound",
                                       !.source = s, !.into = i]
            /\ UNCHANGED heads
       ELSE IF MergeRefused(s, i)
       THEN /\ mres' = MergeResult("MergeConflict", s, i)
            /\ UNCHANGED heads
       ELSE /\ mres' = [MergeResult("Ok", s, i) EXCEPT
                            !.after = [heads EXCEPT ![i] = MergedHead(s, i)]]
            /\ heads' = [heads EXCEPT ![i] = MergedHead(s, i)]
    /\ UNCHANGED <<catVars, callVars, recVars, logRecVars, nameVars, cfVars, useBM, bexists, logVars,
                   mgrVars, thrVars, fork>>

\* ------------------------------------- head updates, statement by statement
\* update_head and merge_fast_forward read the branch file, change the Branch
\* they hold in memory and write the file back with save_branch; nothing locks
\* the file in between. Each process, a thread of this manager or another
\* manager on the same directory, runs one such call.
NoHeadCall == [pc |-> "idle", op |-> "none", source |-> "main", into |-> "main",
               table |-> "users", version |-> 0,
               src |-> EmptyHead, tgt |-> EmptyHead, dsrc |-> EmptyHead, apply |-> {}]
NoHeadDone == [ok |-> FALSE, branch |-> "main", set |-> EmptyHead]

\* update_head, line 149: let mut branch = self.get(branch_name)?
UpdateHeadLoad(p, b, t, v) ==
    /\ hcall[p] = NoHeadCall /\ ~hdone[p].ok
    /\ bexists[b]
    /\ hcall' = [hcall EXCEPT ![p] = [NoHeadCall EXCEPT !.pc = "loaded", !.op = "update_head",
                                          !.into = b, !.table = t, !.version = v,
                                          !.tgt = heads[b]]]
    /\ UNCHANGED <<catVars, callVars, txVars, recVars, logRecVars, mergeVars, bstore, cres,
                   hdone, cfVars>>

\* update_head, lines 150-152: set_table_version on the loaded Branch, then
\* save_branch writes it over the file.
UpdateHeadSave(p) ==
    LET c == hcall[p]
    IN /\ c.pc = "loaded" /\ c.op = "update_head"
       /\ heads' = [heads EXCEPT ![c.into] = [c.tgt EXCEPT ![c.table] = c.version]]
       /\ hdone' = [hdone EXCEPT ![p] = [ok |-> TRUE, branch |-> c.into,
                                         set |-> [EmptyHead EXCEPT ![c.table] = c.version]]]
       /\ hcall' = [hcall EXCEPT ![p] = NoHeadCall]
       /\ UNCHANGED <<catVars, callVars, useBM, bexists, logVars, mgrVars, thrVars, recVars,
                      logRecVars, mergeVars, bstore, cres, cfVars>>

\* merge_fast_forward, lines 192-193: the source and the target are loaded.
MergeLoad(p, s, i) ==
    /\ hcall[p] = NoHeadCall /\ ~hdone[p].ok
    /\ bexists[s] /\ bexists[i] /\ s # i
    /\ hcall' = [hcall EXCEPT ![p] = [NoHeadCall EXCEPT !.pc = "loaded", !.op = "merge",
                                          !.source = s, !.into = i,
                                          !.src = heads[s], !.tgt = heads[i]]]
    /\ UNCHANGED <<catVars, callVars, txVars, recVars, logRecVars, mergeVars, bstore, cres,
                   hdone, cfVars>>

\* merge_fast_forward, lines 195-213 and 214-223: with a fork point self.diff
\* reads both branch files again and the merge returns MergeConflict or takes
\* the source's versions of the diff; without one the loaded source is applied
\* where it is higher.
MergeDiff(p) ==
    LET c == hcall[p]
        d == Diff(c.source, c.into)
    IN /\ c.pc = "loaded" /\ c.op = "merge"
       /\ IF fork[c.source].some
          THEN IF d.modified # {}
               THEN hcall' = [hcall EXCEPT ![p] = NoHeadCall]
               ELSE hcall' = [hcall EXCEPT ![p].pc = "diffed",
                                           ![p].dsrc = heads[c.source],
                                           ![p].apply = d.source_only_changes
                                                           \cup d.added_in_source]
          ELSE hcall' = [hcall EXCEPT ![p].pc = "diffed", ![p].dsrc = c.src,
                                      ![p].apply = {t \in Tables : c.src[t] # 0 /\
                                                                    c.src[t] > c.tgt[t]}]
       /\ UNCHANGED <<catVars, callVars, txVars, recVars, logRecVars, mergeVars, bstore, cres,
                      hdone, cfVars>>

\* merge_fast_forward, line 226: save_branch(&target_branch).
MergeSave(p) ==
    LET c == hcall[p]
    IN /\ c.pc = "diffed"
       /\ heads' = [heads EXCEPT ![c.into] =
                       [t \in Tables |-> IF t \in c.apply THEN c.dsrc[t] ELSE c.tgt[t]]]
       /\ hdone' = [hdone EXCEPT ![p] = [ok |-> TRUE, branch |-> c.into,
                                         set |-> [t \in Tables |->
                                                    IF t \in c.apply THEN c.dsrc[t] ELSE 0]]]
       /\ hcall' = [hcall EXCEPT ![p] = NoHeadCall]
       /\ UNCHANGED <<catVars, callVars, useBM, bexists, logVars, mgrVars, thrVars, recVars,
                      logRecVars, mergeVars, bstore, cres, cfVars>>

\* ------------------------------------------------------ branch names
\* Branch names and file stems are sequences of characters.
NameChars == {"a", "_", "/"}
Names == UNION {[1..n -> NameChars] : n \in 1..MaxNameLen}

\* validate_branch_name: not empty, no leading underscore, only alphanumerics,
\* '-', '_' and '/', no "//" and no "__".
ValidBranchName(n) ==
    /\ Len(n) > 0
    /\ n[1] # "_"
    /\ \A k \in 1..Len(n) : n[k] \in NameChars
    /\ \A k \in 1..(Len(n) - 1) : ~(n[k] = "/" /\ n[k + 1] = "/")
    /\ \A k \in 1..(Len(n) - 1) : ~(n[k] = "_" /\ n[k + 1] = "_")

\* branch_path: name.replace("/", "__") is the stem of the branch file.
RECURSIVE FileStem(_)
FileStem(n) ==
    IF n = <<>> THEN <<>>
    ELSE IF Head(n) = "/" THEN <<"_", "_">> \o FileStem(Tail(n))
    ELSE <<Head(n)>> \o FileStem(Tail(n))

\* list: filename.replace("__", "/"), matches taken from the left, not
\* overlapping.
RECURSIVE BranchNameOf(_)
BranchNameOf(f) ==
    IF f = <<>> THEN <<>>
    ELSE IF Len(f) >= 2 /\ f[1] = "_" /\ f[2] = "_"
    THEN <<"/">> \o BranchNameOf(SubSeq(f, 3, Len(f)))
    ELSE <<Head(f)>> \o BranchNameOf(Tail(f))

\* branch_exists(name)
BranchExists(n) == \E r \in bstore : r.file = FileStem(n)

\* list(): the decoded stems of the branch files.
List == {BranchNameOf(r.file) : r \in bstore}

\* get(name): the Branch read from the file of the name.
Get(n) == CHOOSE r \in bstore : r.file = FileStem(n)

NoCreate == [name |-> <<>>, result |-> "none", fresh |-> FALSE]

\* create(name, None, None): validate the name, refuse an existing file, save
\* Branch::from_branch(name, default branch) under branch_path(name).
Create(n) ==
    /\ cres' = [name |-> n,
                result |-> IF ~ValidBranchName(n) THEN "InvalidBranchName"
                           ELSE IF BranchExists(n) THEN "BranchAlreadyExists"
                           ELSE "Ok",
                fresh |-> \A r \in bstore : r.name # n]
    /\ IF ValidBranchName(n) /\ ~BranchExists(n)
       THEN /\ Cardinality(bstore) < MaxBranchFiles
            /\ bstore' = bstore \cup {[file |-> FileStem(n), name |-> n]}
       ELSE UNCHANGED bstore
    /\ UNCHANGED <<catVars, callVars, txVars, recVars, logRecVars, mergeVars, headVars, cfVars>>

\* ------------------------------------------------- algebraic merge engine
\* i64, scaled down to IntBits bits.
MinInt == -(2 ^ (IntBits - 1))
MaxInt == (2 ^ (IntBits - 1)) - 1
Ints == MinInt..MaxInt

\* OpType
ConflictFreeOps == {"SemilatticeMax", "SemilatticeMin", "SemilatticeUnion",
                    "SemilatticeIntersect", "AbelianAdd", "AbelianMultiply"}
OpTypes == ConflictFreeOps \cup {"GenericOverwrite"}

IsConflictFree(op) == op \in ConflictFreeOps

\* AlgebraicValue: Integer, IntSet, Boolean and Null (one record shape).
Integer(n) == [type |-> "Integer", int |-> n, set |-> {}, bool |-> FALSE]
IntSet(x) == [type |-> "IntSet", int |-> 0, set |-> x, bool |-> FALSE]
Boolean(b) == [type |-> "Boolean", int |-> 0, set |-> {}, bool |-> b]
Null == [type |-> "Null", int |-> 0, set |-> {}, bool |-> FALSE]

Values == {Integer(n) : n \in Ints} \cup {IntSet(x) : x \in SUBSET (1..MaxSetElem)}
              \cup {Boolean(b) : b \in BOOLEAN} \cup {Null}

\* MergeResult
Merged(v) == [kind |-> "Merged", value |-> v]
Conflict == [kind |-> "Conflict", value |-> Null]
TypeMismatch == [kind |-> "TypeMismatch", value |-> Null]

\* i64::wrapping_add, the sum reduced modulo 2^IntBits into MinInt..MaxInt.
CheckedAdd_Wrapping(a, b) ==
    [some |-> TRUE, v |-> ((a + b - MinInt) % (2 ^ IntBits)) + MinInt]

\* i64::checked_add / checked_mul: None when the result does not fit.
CheckedAdd(a, b) ==
    IF a + b \in Ints THEN [some |-> TRUE, v |-> a + b] ELSE [some |-> FALSE, v |-> 0]

CheckedMul(a, b) ==
    IF a * b \in Ints THEN [some |-> TRUE, v |-> a * b] ELSE [some |-> FALSE, v |-> 0]

merge_max(v1, v2) ==
    IF v1.type = "Integer" /\ v2.type = "Integer"
    THEN Merged(Integer(IF v1.int >= v2.int THEN v1.int ELSE v2.int))
    ELSE IF v1.type = "Boolean" /\ v2.type = "Boolean"
    THEN Merged(Boolean(v1.bool \/ v2.bool))
    ELSE TypeMismatch

merge_min(v1, v2) ==
    IF v1.type = "Integer" /\ v2.type = "Integer"
    THEN Merged(Integer(IF v1.int <= v2.int THEN v1.int ELSE v2.int))
    ELSE IF v1.type = "Boolean" /\ v2.type = "Boolean"
    THEN Merged(Boolean(v1.bool /\ v2.bool))
    ELSE TypeMismatch

merge_union(v1, v2) ==
    IF v1.type = "IntSet" /\ v2.type = "IntSet"
    THEN Merged(IntSet(v1.set \cup v2.set))
    ELSE IF v1.type = "Boolean" /\ v2.type = "Boolean"
    THEN Merged(Boolean(v1.bool \/ v2.bool))
    ELSE TypeMismatch

merge_intersect(v1, v2) ==
    IF v1.type = "IntSet" /\ v2.type = "IntSet"
    THEN Merged(IntSet(v1.set \cap v2.set))
    ELSE IF v1.type = "Boolean" /\ v2.type = "Boolean"
    THEN Merged(Boolean(v1.bool /\ v2.bool))
    ELSE TypeMismatch

merge_add(v1, v2) ==
    IF v1.type = "Integer" /\ v2.type = "Integer"
    THEN LET sum == CheckedAdd(v1.int, v2.int)
         IN  IF sum.some THEN Merged(Integer(sum.v)) ELSE Conflict
    ELSE TypeMismatch

merge_multiply(v1, v2) ==
    IF v1.type = "Integer" /\ v2.type = "Integer"
    THEN LET product == CheckedMul(v1.int, v2.int)
         IN  IF product.some THEN Merged(Integer(product.v)) ELSE Conflict
    ELSE TypeMismatch

\* AlgebraicMerger::merge
Merge(op, value1, value2) ==
    IF value1 = Null THEN Merged(value2)
    ELSE IF value2 = Null THEN Merged(value1)
    ELSE IF ~IsConflictFree(op) THEN Conflict
    ELSE CASE op = "SemilatticeMax" -> merge_max(value1, value2)
           [] op = "SemilatticeMin" -> merge_min(value1, value2)
           [] op = "SemilatticeUnion" -> merge_union(value1, value2)
           [] op = "SemilatticeIntersect" -> merge_intersect(value1, value2)
           [] op = "AbelianAdd" -> merge_add(value1, value2)
           [] op = "AbelianMultiply" -> merge_multiply(value1, value2)

\* merge(op, r, c) for the result r of an earlier merge: a failed merge has
\* no value to merge further (merge_operations_for_key returns its error).
MergeThen(op, r, c) == IF r.kind = "Merged" THEN Merge(op, r.value, c) ELSE r

\* merge(op, a, r) for the result r of an earlier merge.
MergeOnto(op, a, r) == IF r.kind = "Merged" THEN Merge(op, a, r.value) ELSE r

NoMergeCall == [op |-> "none", a |-> Null, b |-> Null, c |-> Null,
                ab |-> Merged(Null), left |-> Merged(Null), right |-> Merged(Null)]

\* One evaluation of the merge engine on three values: merge(op, a, b), and
\* the two groupings of the merge of a, b and c.
MergeCall(op, a, b, c) ==
    /\ mcall = NoMergeCall
    /\ mcall' = [op |-> op, a |-> a, b |-> b, c |-> c,
                 ab |-> Merge(op, a, b),
                 left |-> MergeThen(op, Merge(op, a, b), c),
                 right |-> MergeOnto(op, a, Merge(op, b, c))]
    /\ UNCHANGED <<storeVars, ucall, cfmVars, simVars>>

\* ------------------------------------------------- coordination-free updates
\* Nodes are numbered as in SimulatedCluster; the chain 1 - 2 - ... - NumNodes.
NodeIds == 1..NumNodes
Keys == {"k1", "k2"}

\* VectorClock: a total map from node to logical time, missing entries read 0.
ZeroClock == [n \in NodeIds |-> 0]

\* VectorClock::tick: the node's own entry grows by one.
Tick(clock, n) == [clock EXCEPT ![n] = @ + 1]

\* VectorClock::max / merge: the element-wise maximum.
ClockMax(c1, c2) == [n \in NodeIds |-> IF c1[n] >= c2[n] THEN c1[n] ELSE c2[n]]

\* AlgebraicOperation
Operation(k, t, v) == [key |-> k, op_type |-> t, value |-> v]

\* VersionedUpdate::new (update_id is None)
VersionedUpdate(ops, clock, origin) == [ops |-> ops, clock |-> clock, origin |-> origin]

NoUpdate == VersionedUpdate(<<>>, ZeroClock, 0)

\* The operations of a list that are on the key, in the order of the list.
OpsOnKey(ops, k) == SelectSeq(ops, LAMBDA o : o.key = k)

NoEntry == [present |-> FALSE, op_type |-> "none", value |-> Null]
Entry(t, v) == [present |-> TRUE, op_type |-> t, value |-> v]
KeyFailed == [present |-> FALSE, op_type |-> "failed", value |-> Null]

\* The loop of merge_operations_for_key: the values are merged from the left,
\* the first Conflict or TypeMismatch ends it.
RECURSIVE MergeValuesFrom(_, _, _)
MergeValuesFrom(t, r, rest) ==
    IF rest = <<>> THEN r
    ELSE MergeValuesFrom(t, MergeThen(t, r, Head(rest).value), Tail(rest))

\* merge_operations_for_key on a list of at least one operation: the op_type
\* of the first one, MergeFailed when another differs or the values conflict.
merge_operations_for_key(ops) ==
    IF \E k \in 2..Len(ops) : ops[k].op_type # ops[1].op_type THEN KeyFailed
    ELSE LET r == MergeValuesFrom(ops[1].op_type, Merged(ops[1].value), Tail(ops))
         IN  IF r.kind = "Merged" THEN Entry(ops[1].op_type, r.value) ELSE KeyFailed

MergeFailed == [ok |-> FALSE, ops |-> [k \in Keys |-> NoEntry], clock |-> ZeroClock,
                origin |-> <<0, 0>>]

\* LocalCommitProtocol::merge_updates: the operations of both updates grouped
\* by key (update1's first), one operation per key in the result, the clock
\* the maximum of the two.
merge_updates(update1, update2) ==
    LET by_key == [k \in Keys |-> OpsOnKey(update1.ops \o update2.ops, k)]
        merged == [k \in Keys |->
                      IF by_key[k] = <<>> THEN NoEntry
                      ELSE IF Len(by_key[k]) = 1
                      THEN Entry(by_key[k][1].op_type, by_key[k][1].value)
                      ELSE merge_operations_for_key(by_key[k])]
    IN  IF \E k \in Keys : merged[k] = KeyFailed THEN MergeFailed
        ELSE [ok |-> TRUE, ops |-> merged,
              clock |-> ClockMax(update1.clock, update2.clock),
              origin |-> <<update1.origin, update2.origin>>]

NoUpdatesCall == [u1 |-> NoUpdate, u2 |-> NoUpdate, r12 |-> MergeFailed, r21 |-> MergeFailed]

\* merge_updates called on two updates in both orders.
MergeUpdatesCall(u1, u2) ==
    /\ ucall = NoUpdatesCall
    /\ ucall' = [u1 |-> u1, u2 |-> u2,
                 r12 |-> merge_updates(u1, u2), r21 |-> merge_updates(u2, u1)]
    /\ UNCHANGED <<storeVars, mcall, cfmVars, simVars>>

\* ------------------------------------------------- CoordinationFreeManager
\* AlgebraicTransaction::is_fully_algebraic
IsFullyAlgebraic(tx) == \A k \in 1..Len(tx) : IsConflictFree(tx[k].op_type)

\* LocalCommitProtocol::commit_local: an empty or not fully algebraic
\* transaction is refused; otherwise the clock ticks and the update carries it.
LocalCommit(tx, node_id, clock) ==
    IF tx = <<>> THEN [ok |-> FALSE, err |-> "EmptyTransaction", clock |-> clock, update |-> NoUpdate]
    ELSE IF ~IsFullyAlgebraic(tx)
    THEN [ok |-> FALSE, err |-> "NonAlgebraic", clock |-> clock, update |-> NoUpdate]
    ELSE [ok |-> TRUE, err |-> "none", clock |-> Tick(clock, node_id),
          update |-> VersionedUpdate(tx, Tick(clock, node_id), node_id)]

\* apply_update_to_state: the operations one after the other; the first
\* conflict, type mismatch or op_type mismatch returns the error and leaves
\* what the earlier operations stored.
RECURSIVE ApplyUpdateToState(_, _)
ApplyUpdateToState(state, ops) ==
    IF ops = <<>> THEN [ok |-> TRUE, state |-> state]
    ELSE LET op == Head(ops)
             existing == state[op.key]
         IN  IF ~existing.present
             THEN ApplyUpdateToState([state EXCEPT ![op.key] = Entry(op.op_type, op.value)],
                                     Tail(ops))
             ELSE IF existing.op_type # op.op_type THEN [ok |-> FALSE, state |-> state]
             ELSE LET r == Merge(op.op_type, existing.value, op.value)
                  IN  IF r.kind = "Merged"
                      THEN ApplyUpdateToState(
                               [state EXCEPT ![op.key] = Entry(op.op_type, r.value)], Tail(ops))
                      ELSE [ok |-> FALSE, state |-> state]

EmptyState == [k \in Keys |-> NoEntry]

\* The manager is node 1.
MgrNode == 1

NoMgrResult == [call |-> "none", ok |-> FALSE, err |-> "none", update |-> NoUpdate]

\* CoordinationFreeManager::commit_local (require_fully_algebraic is the default)
MgrCommitLocal(tx) ==
    /\ mgr.clock[MgrNode] < MaxClock
    /\ IF ~IsFullyAlgebraic(tx)
       THEN /\ mgres' = [call |-> "commit", ok |-> FALSE, err |-> "NotFullyAlgebraic",
                         update |-> NoUpdate]
            /\ UNCHANGED mgr
       ELSE LET c == LocalCommit(tx, MgrNode, mgr.clock)
                a == ApplyUpdateToState(mgr.state, c.update.ops)
            IN  IF ~c.ok
                THEN /\ mgres' = [call |-> "commit", ok |-> FALSE, err |-> c.err,
                                  update |-> NoUpdate]
                     /\ UNCHANGED mgr
                ELSE IF ~a.ok
                THEN /\ mgres' = [call |-> "commit", ok |-> FALSE, err |-> "MergeError",
                                  update |-> NoUpdate]
                     /\ mgr' = [mgr EXCEPT !.clock = c.clock, !.state = a.state]
                ELSE /\ mgres' = [call |-> "commit", ok |-> TRUE, err |-> "none",
                                  update |-> c.update]
                     /\ mgr' = [mgr EXCEPT !.clock = c.clock, !.state = a.state,
                                           !.committed_updates = Append(@, c.update)]
    /\ UNCHANGED <<storeVars, algVars, simVars>>

\* CoordinationFreeManager::receive_update: the remote clock is merged in, then
\* the operations are applied. received is the history of the calls.
MgrReceiveUpdate(u) ==
    /\ Len(mgr.received) < MaxReceives
    /\ LET a == ApplyUpdateToState(mgr.state, u.ops)
       IN  /\ mgr' = [mgr EXCEPT !.clock = ClockMax(@, u.clock), !.state = a.state,
                                 !.received = Append(@, u)]
           /\ mgres' = [call |-> "receive", ok |-> a.ok,
                        err |-> IF a.ok THEN "none" ELSE "MergeError", update |-> u]
    /\ UNCHANGED <<storeVars, algVars, simVars>>

\* ------------------------------------------------- SimulatedCluster
\* SimulatedNode::new
NewNode == [clock |-> ZeroClock, state |-> EmptyState, applied_updates |-> {},
            all_updates |-> <<>>, outbox |-> <<>>]

\* generate_update_id without an explicit id: the origin and the full clock.
UpdateId(u) == <<u.origin, u.clock>>

\* The loop of SimulatedNode::apply_update: an operation whose merge is not
\* Merged, or whose op_type differs from the stored one, is passed over.
RECURSIVE ApplyOperations(_, _)
ApplyOperations(state, ops) ==
    IF ops = <<>> THEN state
    ELSE LET op == Head(ops)
             existing == state[op.key]
             r == Merge(op.op_type, existing.value, op.value)
         IN  ApplyOperations(
                 IF ~existing.present
                 THEN [state EXCEPT ![op.key] = Entry(op.op_type, op.value)]
                 ELSE IF existing.op_type = op.op_type /\ r.kind = "Merged"
                 THEN [state EXCEPT ![op.key] = Entry(op.op_type, r.value)]
                 ELSE state,
                 Tail(ops))

\* SimulatedNode::apply_update
ApplyUpdate(node, u) ==
    [node EXCEPT !.state = ApplyOperations(node.state, u.ops),
                 !.clock = ClockMax(node.clock, u.clock)]

\* receive_update without the relay: the update is not queued again.
ReceiveUpdate_NoRelay(node, u) ==
    IF UpdateId(u) \in node.applied_updates THEN node
    ELSE [ApplyUpdate(node, u) EXCEPT !.applied_updates = @ \cup {UpdateId(u)},
                                      !.all_updates = Append(@, u)]

\* SimulatedNode::receive_update: an update whose id is known is skipped.
ReceiveUpdate(node, u) ==
    IF UpdateId(u) \in node.applied_updates THEN node
    ELSE [ApplyUpdate(node, u) EXCEPT !.applied_updates = @ \cup {UpdateId(u)},
                                      !.all_updates = Append(@, u),
                                      !.outbox = Append(@, u)]

\* SimulatedNode::commit, for a transaction commit_local accepts.
Commit(node, n, tx) ==
    LET c == LocalCommit(tx, n, node.clock)
    IN  [ApplyUpdate([node EXCEPT !.clock = c.clock], c.update)
            EXCEPT !.applied_updates = @ \cup {UpdateId(c.update)},
                   !.all_updates = Append(@, c.update),
                   !.outbox = Append(@, c.update)]

\* is_partitioned
IsPartitioned(from, to) == <<from, to>> \in partitions \/ <<to, from>> \in partitions

NodeOrder == [i \in 1..NumNodes |-> i]

\* The messages broadcast_all queues for one update: one for each other node
\* that is not partitioned from the sender, in index order.
MessagesOfUpdate(from, u) ==
    LET targets == SelectSeq(NodeOrder, LAMBDA to : to # from /\ ~IsPartitioned(from, to))
    IN  [i \in 1..Len(targets) |-> [from |-> from, to |-> targets[i], update |-> u]]

RECURSIVE MessagesOfOutbox(_, _)
MessagesOfOutbox(from, outbox) ==
    IF outbox = <<>> THEN <<>>
    ELSE MessagesOfUpdate(from, Head(outbox)) \o MessagesOfOutbox(from, Tail(outbox))

RECURSIVE MessagesFrom(_, _)
MessagesFrom(ns, from) ==
    IF from > NumNodes THEN <<>>
    ELSE MessagesOfOutbox(from, ns[from].outbox) \o MessagesFrom(ns, from + 1)

\* broadcast_all: every outbox is drained into the message queue.
Broadcast(ns, msgs) ==
    [nodes |-> [n \in NodeIds |-> [ns[n] EXCEPT !.outbox = <<>>]],
     messages |-> msgs \o MessagesFrom(ns, 1)]

\* deliver_messages: the queue is drained in order; a message across a
\* partition is dropped.
RECURSIVE Deliver(_, _)
Deliver(ns, msgs) ==
    IF msgs = <<>> THEN ns
    ELSE LET m == Head(msgs)
         IN  Deliver(IF IsPartitioned(m.from, m.to) THEN ns
                     ELSE [ns EXCEPT ![m.to] = ReceiveUpdate(@, m.update)],
                     Tail(msgs))

\* The commits made so far: a node's own clock entry counts its commits.
RECURSIVE CommitsUpTo(_)
CommitsUpTo(n) == IF n = 0 THEN 0 ELSE nodes[n].clock[n] + CommitsUpTo(n - 1)

\* commit_on_node
CommitOnNode(n, tx) ==
    /\ CommitsUpTo(NumNodes) < MaxCommits
    /\ LocalCommit(tx, n, nodes[n].clock).ok
    /\ nodes' = [nodes EXCEPT ![n] = Commit(@, n, tx)]
    /\ UNCHANGED <<storeVars, algVars, cfmVars, messages, partitions, phase>>

\* broadcast_all
BroadcastAll ==
    /\ nodes' = Broadcast(nodes, messages).nodes
    /\ messages' = Broadcast(nodes, messages).messages
    /\ UNCHANGED <<storeVars, algVars, cfmVars, partitions, phase>>

\* deliver_messages
DeliverMessages ==
    /\ nodes' = Deliver(nodes, messages)
    /\ messages' = <<>>
    /\ UNCHANGED <<storeVars, algVars, cfmVars, partitions, phase>>

\* propagate_round: broadcast_all, then deliver_messages.
PropagateRound ==
    /\ LET b == Broadcast(nodes, messages)
       IN  nodes' = Deliver(b.nodes, b.messages)
    /\ messages' = <<>>
    /\ UNCHANGED <<storeVars, algVars, cfmVars, partitions, phase>>

\* requeue_all_updates that queues only the updates the node committed itself.
Requeue_LocalOnly(node, n) ==
    [node EXCEPT !.outbox = @ \o SelectSeq(node.all_updates, LAMBDA u : u.origin = n)]

\* The loop body of requeue_all_updates: every update of all_updates is
\* pushed onto the node's outbox.
Requeue(node, n) == [node EXCEPT !.outbox = @ \o node.all_updates]

\* partition(a, b), before the network is healed.
Partition(a, b) ==
    /\ phase = "partitioned"
    /\ <<a, b>> \notin partitions
    /\ partitions' = partitions \cup {<<a, b>>}
    /\ UNCHANGED <<storeVars, algVars, cfmVars, nodes, messages, phase>>

\* heal_partitions, or config.partitions replaced by a set P that leaves the
\* links connected.
HealPartitions(P) ==
    /\ phase = "partitioned"
    /\ partitions' = P
    /\ phase' = "healed"
    /\ UNCHANGED <<storeVars, algVars, cfmVars, nodes, messages>>

\* requeue_all_updates, called after the healing.
RequeueAllUpdates ==
    /\ phase = "healed"
    /\ nodes' = [n \in NodeIds |-> Requeue(nodes[n], n)]
    /\ phase' = "requeued"
    /\ UNCHANGED <<storeVars, algVars, cfmVars, messages, partitions>>

\* ------------------------------------------- transaction-log recovery
\* TransactionStatus::Aborted { reason }: the reason is kept in the status.
AbortedByCaller == "Aborted: Test"
AbortedByRecovery == "Aborted: Recovery: pending transaction rolled back"
\* The statuses of records written by callers.
LogStatuses == {"Active", "Preparing", "Committed", AbortedByCaller}
IsAborted(tx) == tx.status \in {"Aborted", AbortedByCaller, AbortedByRecovery}

\* TransactionRecord::mark_aborted("Recovery: pending transaction rolled back")
MarkAbortedByRecovery_StaysPending(tx) == [tx EXCEPT !.status = "Preparing"]
MarkAbortedByRecovery(tx) == [tx EXCEPT !.status = AbortedByRecovery]

\* list_transactions_in_epoch: the ids of the tx_*.json files, sorted.
ListTransactionsInEpoch == SortedSeq({k \in TxIds : logTx[k] # NoTx})

\* RecoveryManager::decide
Decide_NeverRollback(tx) ==
    IF IsCommitted(tx) THEN "Keep" ELSE "AlreadyAborted"
Decide(tx) ==
    IF IsCommitted(tx) THEN "Keep"
    ELSE IF IsAborted(tx) THEN "AlreadyAborted"
    ELSE "Rollback"

\* The ids of a sorted listing whose record gets decision d, in order.
Decided(d) == SortedSeq({k \in TxIds : logTx[k] # NoTx /\ Decide(logTx[k]) = d})

NoLogReport == [epochs_scanned |-> 0, transactions_scanned |-> 0,
                rolled_back |-> <<>>, already_aborted |-> <<>>,
                already_committed |-> <<>>, replayed |-> <<>>, errors |-> 0]

\* RecoveryManager::recover: one epoch directory; every record of it is read
\* and sorted into the report by its decision.  No production path writes the
\* epoch's committed marker, so no warning is raised.
RecoverScan ==
    [epochs_scanned |-> 1,
     transactions_scanned |-> Len(ListTransactionsInEpoch),
     rolled_back |-> Decided("Rollback"),
     already_aborted |-> Decided("AlreadyAborted"),
     already_committed |-> Decided("Keep"),
     replayed |-> <<>>, errors |-> 0]

\* TransactionLog::write_transaction called on the log directly (as begin,
\* abort and commit of the manager do, and the tests of recovery.rs): the record
\* file is replaced; a Committed record also moves _latest_committed and
\* appends to _committed_index.
LogWriteTransaction(k, s) ==
    /\ nlog < MaxLogOps
    /\ nlog' = nlog + 1
    /\ logTx' = [logTx EXCEPT ![k] = [NewTx(k, "main") EXCEPT !.status = s]]
    /\ IF s = "Committed"
       THEN /\ latestCommitted' = k
            /\ committedIndex' = Append(committedIndex, k)
       ELSE UNCHANGED <<latestCommitted, committedIndex>>
    /\ UNCHANGED <<catVars, callVars, recVars, mergeVars, nameVars, cfVars, branchVars, seqFile, epochMeta,
                   mgrVars, thrVars, lreport>>

\* recover_and_apply: recover(), then every id of rolled_back is read again
\* and, when still Active or Preparing, marked aborted and written back.
RecoverAndApply ==
    /\ nlog < MaxLogOps
    /\ nlog' = nlog + 1
    /\ lreport' = RecoverScan
    /\ logTx' = [k \in TxIds |->
                   IF /\ logTx[k] # NoTx
                      /\ Decide(logTx[k]) = "Rollback"
                      /\ IsActive(logTx[k]) \/ IsPreparing(logTx[k])
                   THEN MarkAbortedByRecovery(logTx[k])
                   ELSE logTx[k]]
    /\ UNCHANGED <<catVars, callVars, recVars, mergeVars, nameVars, cfVars, branchVars, seqFile, latestCommitted,
                   committedIndex, epochMeta, mgrVars, thrVars>>

\* ------------------------------------------------------------------ Init
InitCatalog ==
    /\ tdir = [t \in Tables |-> FALSE]
    /\ vfile = [t \in Tables |-> [v \in Versions |-> NoFile]]
    /\ latest = [t \in Tables |-> 0]
    /\ lockHolder = [t \in Tables |-> NoProc]
    /\ pending = {}
    /\ nextIntent = 0

InitCalls ==
    /\ cpc = [p \in Procs |-> "idle"]
    /\ ccall = [p \in Procs |-> IdleCall]
    /\ okVers = [t \in Tables |-> <<>>]
    /\ dangling = [t \in Tables |-> FALSE]
    /\ overlapped = [t \in Tables |-> FALSE]
    /\ ncalls = 0

InitBranches(bm) ==
    /\ useBM = bm
    /\ bexists = [b \in Branches |-> b = "main"]
    /\ heads = [b \in Branches |-> [t \in Tables |-> 0]]

InitTx ==
    /\ seqFile = 0
    /\ logTx = [k \in TxIds |-> NoTx]
    /\ latestCommitted = 0
    /\ committedIndex = <<>>
    /\ epochMeta = [transactions |-> <<>>, committed_count |-> 0, aborted_count |-> 0]
    /\ active = [k \in TxIds |-> NoTx]
    /\ recent = <<>>
    /\ commitLock = NoThread
    /\ tpc = [w \in Threads |-> "idle"]
    /\ top = [w \in Threads |-> IdleOp]
    /\ tres = [w \in Threads |-> NoRes]
    /\ begun = <<>>
    /\ gsnap = [k \in TxIds |-> NoSnapHistory]
    /\ nops = 0

InitRecover ==
    /\ report = NoReport
    /\ crashed = {}
    /\ nrec = 0

InitLogRecover ==
    /\ lreport = NoLogReport
    /\ nlog = 0

InitMerge ==
    /\ fork = [b \in Branches |-> NoForkPoint]
    /\ mres = NoMerge
    /\ nbr = 0

InitNames ==
    /\ bstore = {}
    /\ cres = NoCreate
    /\ hcall = [p \in Procs |-> NoHeadCall]
    /\ hdone = [p \in Procs |-> NoHeadDone]

InitAlgebra ==
    /\ mcall = NoMergeCall
    /\ ucall = NoUpdatesCall

InitCfManager ==
    /\ mgr = [clock |-> ZeroClock, state |-> EmptyState, committed_updates |-> <<>>,
              received |-> <<>>]
    /\ mgres = NoMgrResult

\* SimulatedCluster::new
InitCluster ==
    /\ nodes = [n \in NodeIds |-> NewNode]
    /\ messages = <<>>
    /\ partitions = {}
    /\ phase = "partitioned"

InitCf == InitAlgebra /\ InitCfManager /\ InitCluster

InitExt == InitRecover /\ InitLogRecover /\ InitMerge /\ InitNames /\ InitCf

Init == InitCatalog /\ InitCalls /\ InitBranches(FALSE) /\ InitTx /\ InitExt

InitManager ==
    /\ InitCatalog /\ InitCalls /\ InitTx /\ InitExt
    /\ \E bm \in BOOLEAN : InitBranches(bm)


NextCatalog ==
    \/ \E p \in Procs, t \in Tables, h \in Hashes : CnvWriteIntent(p, t, h)
    \/ \E p \in Procs, t \in Tables, v \in 1..MaxCalls, h \in Hashes : CommitCall(p, t, v, h)
    \/ \E p \in Procs : AcquireTableLock(p)
    \/ \E p \in Procs : WriteVersionFile(p)
    \/ \E p \in Procs : UpdateLatest(p)
    \/ \E p \in Procs : UpdateLatestFails(p)
    \/ \E p \in Procs : CommitReturn(p)

SpecCatalog == Init /\ [][NextCatalog]_vars

NextTx ==
    \/ \E w \in Threads, b \in BeginBranches : BeginReadSequence(w, b)
    \/ \E w \in Threads : BeginFinish(w)
    \/ \E k \in TxIds, t \in TxTables, v \in ReadVersions : RecordRead(k, t, v)
    \/ \E k \in TxIds, t \in TxTables, b \in WriteBranches :
          AddWrite(k, t, NextHash(active[k]), b)
    \/ \E w \in Threads, k \in TxIds : CommitStart(w, k)
    \/ \E w \in Threads : CommitCheck(w)
    \/ \E w \in Threads : CommitApplyWrite(w)
    \/ \E w \in Threads : CommitApplyFails(w)
    \/ \E w \in Threads : CommitApplyDone(w)
    \/ \E w \in Threads : CommitUpdateHead(w)
    \/ \E w \in Threads : CommitHeadsDone(w)
    \/ \E w \in Threads : CommitPersist(w)
    \/ \E w \in Threads : CommitRemove(w)
    \/ \E k \in TxIds : Abort(k)
    \/ ClearRecentCommitted
    \/ BranchCreate("feature")

SpecTx == InitManager /\ [][NextTx]_vars

\* Catalog calls of other processes beside the commits of one manager without
\* a branch manager: both take the per-table advisory lock, the commits also
\* take commit_lock. Every caller works on one table with one list of chunk
\* hashes; MaxLockOps bounds the calls started in a behaviour.
MaxLockOps == 6
LockTable == "users"
LockHashes == "h1"
LockOpsLeft == nops + ncalls < MaxLockOps

NextLocks ==
    \/ \E p \in Procs : LockOpsLeft /\ CnvWriteIntent(p, LockTable, LockHashes)
    \/ \E p \in Procs : LockOpsLeft /\ CommitCall(p, LockTable, 1, LockHashes)
    \/ \E p \in Procs : AcquireTableLock(p)
    \/ \E p \in Procs : WriteVersionFile(p)
    \/ \E p \in Procs : UpdateLatest(p)
    \/ \E p \in Procs : UpdateLatestFails(p)
    \/ \E p \in Procs : CommitReturn(p)
    \/ \E w \in Threads, b \in BeginBranches : LockOpsLeft /\ BeginReadSequence(w, b)
    \/ \E w \in Threads : BeginFinish(w)
    \/ \E k \in TxIds : LockOpsLeft /\ AddWrite(k, LockTable, NextHash(active[k]), "none")
    \/ \E w \in Threads, k \in TxIds : LockOpsLeft /\ CommitStart(w, k)
    \/ \E w \in Threads : CommitCheck(w)
    \/ \E w \in Threads : CommitApplyWrite(w)
    \/ \E w \in Threads : CommitApplyFails(w)
    \/ \E w \in Threads : CommitApplyDone(w)
    \/ \E w \in Threads : CommitPersist(w)
    \/ \E w \in Threads : CommitRemove(w)

SpecLocks == Init /\ [][NextLocks]_vars

\* commit_next_version calls of several processes, any of which may die
\* inside its call, and recover_pending_commits run by any process that is
\* not inside a call.
NextRecover ==
    \/ \E p \in Procs, t \in Tables, h \in Hashes : CnvWriteIntent(p, t, h)
    \/ \E p \in Procs : AcquireTableLock(p)
    \/ \E p \in Procs : WriteVersionFile(p)
    \/ \E p \in Procs : UpdateLatest(p)
    \/ \E p \in Procs : UpdateLatestFails(p)
    \/ \E p \in Procs : CommitReturn(p)
    \/ \E p \in Procs : Crash(p)
    \/ \E p \in Procs : Recover(p)

SpecRecover == Init /\ [][NextRecover]_vars

\* Records written to the transaction log in any status, and recover_and_apply.
NextLogRecover ==
    \/ \E k \in TxIds, s \in LogStatuses : LogWriteTransaction(k, s)
    \/ RecoverAndApply

SpecLogRecover == Init /\ [][NextLogRecover]_vars

\* Recovery applied to what crashes leave on disk: a transaction log with
\* records in any status, a catalog with up to two versions of a table (the
\* file of the next version may exist without latest naming it) and intent
\* records left in .pending; recover_and_apply and recover_pending_commits are
\* then run, each up to twice, with no other call in between.
IntentsLeft ==
    {P \in SUBSET [id : 1..2, table : Tables, hashes : Hashes] :
        \A i, j \in P : i.id = j.id => i = j}

InitAfterCrash ==
    /\ InitCalls /\ InitBranches(FALSE) /\ InitExt
    /\ \E st \in [TxIds -> LogStatuses \cup {"None"}] :
          /\ logTx = [k \in TxIds |->
                        IF st[k] = "None" THEN NoTx
                        ELSE [NewTx(k, "main") EXCEPT !.status = st[k]]]
          /\ committedIndex = SortedSeq({k \in TxIds : st[k] = "Committed"})
          /\ latestCommitted =
                IF \E k \in TxIds : st[k] = "Committed"
                THEN CHOOSE k \in TxIds : st[k] = "Committed" /\
                         \A j \in TxIds : st[j] = "Committed" => j <= k
                ELSE 0
    /\ seqFile = MaxTx
    /\ epochMeta = [transactions |-> <<>>, committed_count |-> 0, aborted_count |-> 0]
    /\ active = [k \in TxIds |-> NoTx]
    /\ recent = <<>>
    /\ commitLock = NoThread
    /\ tpc = [w \in Threads |-> "idle"]
    /\ top = [w \in Threads |-> IdleOp]
    /\ tres = [w \in Threads |-> NoRes]
    /\ begun = <<>>
    /\ gsnap = [k \in TxIds |-> NoSnapHistory]
    /\ nops = 0
    /\ \E n \in 0..2, m \in 0..1, hs \in [1..3 -> Hashes] :
          /\ tdir = [t \in Tables |-> t = "users" /\ n + m > 0]
          /\ vfile = [t \in Tables |-> [v \in Versions |->
                        IF t = "users" /\ v <= n + m THEN hs[v] ELSE NoFile]]
          /\ latest = [t \in Tables |-> IF t = "users" THEN n ELSE 0]
    /\ lockHolder = [t \in Tables |-> NoProc]
    /\ pending \in IntentsLeft
    /\ nextIntent = 2

NextAfterCrash ==
    \/ RecoverAndApply
    \/ \E p \in Procs : Recover(p)

SpecAfterCrash == InitAfterCrash /\ [][NextAfterCrash]_vars

\* The branch manager called directly: heads set to any version, a branch
\* created from an existing one, any branch merged into any branch.
InitBranchManager ==
    InitCatalog /\ InitCalls /\ InitTx /\ InitExt /\ InitBranches(TRUE)

NextBranch ==
    \/ \E b \in Branches, t \in Tables, v \in HeadVersions : UpdateHead(b, t, v)
    \/ \E b, from \in Branches : CreateBranch(b, from)
    \/ \E s, i \in Branches : MergeFastForward(s, i)

SpecBranch == InitBranchManager /\ [][NextBranch]_vars

\* Branches created under any name.
NextNames == \E n \in Names : Create(n)

SpecNames == InitBranchManager /\ [][NextNames]_vars

\* Two processes each run one update_head or merge_fast_forward on a branch
\* directory with main and a branch feature created from it, both with any
\* heads.
InitHeads ==
    /\ InitCatalog /\ InitCalls /\ InitTx
    /\ InitRecover /\ InitLogRecover /\ InitNames /\ InitCf
    /\ useBM = TRUE
    /\ bexists = [b \in Branches |-> TRUE]
    /\ heads \in [Branches -> [Tables -> 0..1]]
    /\ \E base \in [Tables -> 0..1], forked \in BOOLEAN :
          fork = [b \in Branches |->
                    IF b = "feature" /\ forked THEN ForkPoint(base) ELSE NoForkPoint]
    /\ mres = NoMerge
    /\ nbr = 0

HeadUpdateVersions == 2..3

NextHeads ==
    \/ \E p \in Procs, b \in Branches, t \in Tables, v \in HeadUpdateVersions :
          UpdateHeadLoad(p, b, t, v)
    \/ \E p \in Procs : UpdateHeadSave(p)
    \/ \E p \in Procs, s, i \in Branches : MergeLoad(p, s, i)
    \/ \E p \in Procs : MergeDiff(p)
    \/ \E p \in Procs : MergeSave(p)

SpecHeads == InitHeads /\ [][NextHeads]_vars

\* The merge engine applied to every operation type and values.
NextMerge ==
    /\ mcall = NoMergeCall
    /\ \E op \in OpTypes, a, b, c \in Values : MergeCall(op, a, b, c)

SpecMerge == Init /\ [][NextMerge]_vars

\* Updates as commit_local emits them: one to MaxOpsPerUpdate operations, the
\* clock of the origin at least one.
UpdateValues == {Integer(MaxInt), Integer(1), Integer(-1)}
UpdateOpTypes == {"AbelianAdd", "SemilatticeMax"}
UpdateOperations == {Operation(k, t, v) : k \in Keys, t \in UpdateOpTypes, v \in UpdateValues}
OperationLists == UNION {[1..n -> UpdateOperations] : n \in 1..MaxOpsPerUpdate}
UpdatesOf(n) ==
    {VersionedUpdate(ops, c, n) :
        ops \in OperationLists,
        c \in {Tick(ZeroClock, n), [m \in NodeIds |-> IF m \in {1, 2} THEN 1 ELSE 0]}}

NextMergeUpdates ==
    /\ ucall = NoUpdatesCall
    /\ \E u1 \in UpdatesOf(1), u2 \in UpdatesOf(2) : MergeUpdatesCall(u1, u2)

SpecMergeUpdates == Init /\ [][NextMergeUpdates]_vars

\* Transactions handed to the manager: empty, algebraic, or with an overwrite.
MgrOperations ==
    {Operation(k, t, v) : k \in Keys, t \in UpdateOpTypes, v \in {Integer(MaxInt), Integer(1)}}
        \cup {Operation("k1", "GenericOverwrite", Integer(1))}
MgrTransactions == UNION {[1..n -> MgrOperations] : n \in 0..MaxOpsPerUpdate}
RemoteUpdates ==
    {VersionedUpdate(<<Operation("k1", t, v)>>, Tick(ZeroClock, 2), 2) :
        t \in {"AbelianAdd", "AbelianMultiply", "SemilatticeMax"},
        v \in {Integer(1), Integer(2)}}

NextCfManager ==
    \/ \E tx \in MgrTransactions : MgrCommitLocal(tx)
    \/ \E u \in RemoteUpdates : MgrReceiveUpdate(u)

SpecCfManager == Init /\ [][NextCfManager]_vars

\* A cluster without partitions: commits, broadcasts and deliveries in any order.
SimTransactions ==
    {<<Operation(k, t, v)>> : k \in Keys, t \in UpdateOpTypes, v \in {Integer(MaxInt), Integer(1)}}

NextCluster ==
    \/ \E n \in NodeIds, tx \in SimTransactions : CommitOnNode(n, tx)
    \/ BroadcastAll
    \/ DeliverMessages

SpecCluster == Init /\ [][NextCluster]_vars

\* A cluster partitioned before any commit, the links left forming a connected
\* graph (the chain 1 - 2 - ... - NumNodes among them), and propagation rounds.
NodePairs == {p \in NodeIds \X NodeIds : p[1] < p[2]}
Linked(P, a, b) == <<a, b>> \notin P /\ <<b, a>> \notin P
Connected(P) ==
    \A S \in SUBSET NodeIds :
        (S # {} /\ S # NodeIds) => \E a \in S, b \in NodeIds \ S : Linked(P, a, b)
ChainPartitions == {p \in NodePairs : p[2] - p[1] >= 2}

InitPartitionedCluster ==
    /\ nodes = [n \in NodeIds |-> NewNode]
    /\ messages = <<>>
    /\ partitions \in {P \in SUBSET NodePairs : Connected(P)}
    /\ phase = "partitioned"

InitGossip ==
    /\ InitCatalog /\ InitCalls /\ InitBranches(FALSE) /\ InitTx
    /\ InitRecover /\ InitLogRecover /\ InitMerge /\ InitNames
    /\ InitAlgebra /\ InitCfManager /\ InitPartitionedCluster

NextGossip ==
    \/ \E n \in NodeIds, tx \in SimTransactions : CommitOnNode(n, tx)
    \/ PropagateRound

SpecGossip == InitGossip /\ [][NextGossip]_vars

\* propagate_all keeps running rounds while an outbox holds an update.
FairSpecGossip == SpecGossip /\ WF_vars(PropagateRound)

\* A cluster that is partitioned while nodes commit and propagate, then healed
\* to a connected network, then told to requeue.
HealTransactions == {<<Operation("k1", "AbelianAdd", Integer(1))>>}

NextHeal ==
    \/ \E n \in NodeIds, tx \in HealTransactions : CommitOnNode(n, tx)
    \/ PropagateRound
    \/ \E p \in NodePairs : Partition(p[1], p[2])
    \/ \E P \in {Q \in SUBSET NodePairs : Connected(Q)} : HealPartitions(P)
    \/ RequeueAllUpdates

SpecHeal == Init /\ [][NextHeal]_vars

FairSpecHeal == SpecHeal /\ WF_vars(PropagateRound)

\* ---------------------------------------------------------------- claims
Quiescent(t) == \A p \in Procs : cpc[p] = "idle" \/ ccall[p].table # t

\* C1: once every commit / commit_next_version call on a table has returned,
\* and the last call that wrote a version file did not fail after writing it,
\* list_versions(table) is exactly 1..N, N the number of calls that returned Ok.
C1_GaplessVersions ==
    \A t \in Tables :
        (Quiescent(t) /\ tdir[t] /\ ~dangling[t])
            => ListVersions(t) = Range(Len(okVers[t]))

C1_Witness ==
    \E t \in Tables :
        /\ Quiescent(t) /\ ~dangling[t]
        /\ Len(okVers[t]) >= 2
        /\ ListVersions(t) = Range(Len(okVers[t]))

\* C2: callers of commit_next_version / commit on one table, also when their
\* calls overlap, are returned pairwise distinct versions that are exactly
\* 1..k for the k calls returned so far, and once all have returned the
\* latest pointer equals k.
C2_DisjointSequentialVersions ==
    \A t \in Tables :
        LET k == Len(okVers[t]) IN
        /\ \A i, j \in 1..k : i # j => okVers[t][i] # okVers[t][j]
        /\ {okVers[t][i] : i \in 1..k} = 1..k
        /\ Quiescent(t) => latest[t] = k

C2_Witness ==
    \E t \in Tables :
        /\ overlapped[t] /\ Quiescent(t)
        /\ Len(okVers[t]) >= 2
        /\ latest[t] = Len(okVers[t])

\* The commit critical section: from the checks to the push on
\* recent_committed.
InCritical(w) == tpc[w] \in {"c_apply", "c_heads", "c_persist"}

\* C3: at most one thread of a manager is inside the commit critical section,
\* and the one that is holds commit_lock.
C3_CommitSerialized ==
    \A w1, w2 \in Threads :
        InCritical(w1) => /\ commitLock = w1
                          /\ (InCritical(w2) => w1 = w2)

C3_Witness ==
    \E w1, w2 \in Threads :
        /\ InCritical(w1)
        /\ tpc[w2] = "c_lock"
        /\ top[w1].clone.writes # <<>>
        /\ top[w2].clone.writes # <<>>

\* C4 (as amended): a transaction whose snapshot has an entry for T that was
\* T's current version when taken, never passes the checks of commit once
\* another transaction has committed a write to T that moved what the checks
\* read for it: the catalog without a branch manager, the head of the
\* transaction's own branch with one.
C4_StaleSnapshotNeverCommits ==
    \A w \in Threads : InCritical(w) => top[w].g.chgB = {}

C4_Witness ==
    \E w \in Threads, k \in TxIds :
        /\ tres[w].op = "commit" /\ tres[w].tx = k
        /\ tres[w].kind = "SnapshotConflict"
        /\ active[k] # NoTx
        /\ tres[w].table \in gsnap[k].chgB

\* C4 (as stated): a transaction whose snapshot has an entry for T never
\* passes the checks of commit once another transaction has committed a write
\* to T after the entry was taken.
C4_AnyLaterCommitFailsCommit ==
    \A w \in Threads : InCritical(w) => top[w].g.chg = {}

\* Write i of tx is the last one tx makes to its table on its target branch.
LastToTarget(tx, i) ==
    \A j \in (i + 1)..Len(tx.writes) :
        \/ tx.writes[j].table # tx.writes[i].table
        \/ WriteBranch(tx, tx.writes[j]) # WriteBranch(tx, tx.writes[i])

\* C5: when commit is about to return Ok (every write applied, every head
\* moved), each write's assigned catalog version carries the write's chunk
\* hashes and, with a branch manager, the head of the write's target branch for
\* its table is the version the catalog assigned to that write (to the last
\* such write, when several target the same table and branch).
C5_HeadsMatchAssigned ==
    \A w \in Threads :
        tpc[w] = "c_persist" =>
            LET tx == top[w].clone IN
            \A i \in 1..Len(tx.writes) :
                /\ vfile[tx.writes[i].table][top[w].assigned[i]] = tx.writes[i].chunk_hashes
                /\ (useBM /\ LastToTarget(tx, i)) =>
                      heads[WriteBranch(tx, tx.writes[i])][tx.writes[i].table]
                          = top[w].assigned[i]

\* What a commit call saw of the catalog and the branches when it started its
\* checks.
PreState(w) ==
    IF tpc[w] = "c_lock"
    THEN [latest |-> latest, heads |-> heads, bexists |-> bexists]
    ELSE top[w].pre

\* A step in which thread w returns an error from commit.
CommitErrStep(w) ==
    /\ tpc[w] \in {"c_lock", "c_apply", "c_heads"}
    /\ tpc'[w] = "idle"

\* C6: when commit returns an error, whatever the step that failed, no table
\* has a catalog version it did not have when the call started its checks and
\* no branch that existed then has a moved head.
C6_FailedCommitInvisible ==
    [][\A w \in Threads :
          CommitErrStep(w) =>
              /\ latest' = PreState(w).latest
              /\ \A b \in Branches :
                    PreState(w).bexists[b] => heads'[b] = PreState(w).heads[b]]_vars

\* A step in which thread w returns WriteConflict or SnapshotConflict.
ConflictStep(w) ==
    /\ tpc[w] = "c_lock"
    /\ tpc'[w] = "idle"

C8_TerminalStatusImmutable ==
    [][\A k \in TxIds :
          /\ logTx[k].status = "Aborted" => logTx'[k].status # "Committed"
          /\ logTx[k].status = "Committed" => logTx'[k].status # "Aborted"]_vars

\* Scenario S5 at the moment TX2's commit runs its checks: TX2 is on main and
\* writes users only, its snapshot has users at 0 or not at all; TX1, begun
\* before it on main, has committed its write to users as users@1 and is the
\* record in recent_committed.
S5AtCheck(w) ==
    LET tx == top[w].clone IN
    /\ tpc[w] = "c_lock" /\ CommitLockFree
    /\ tx.branch = "main"
    /\ WrittenTables(tx) = {"users"}
    /\ tx.read_snapshot["users"] \in {Absent, 0}
    /\ Len(recent) = 1
    /\ recent[1].tx_id < tx.tx_id
    /\ recent[1].branch = "main"
    /\ WrittenTables(recent[1]) = {"users"}
    /\ latest["users"] = 1
    /\ CurrentVersion("main", "users") = 1

\* C9 (as amended): in scenario S5, TX2's commit fails with
\* WriteConflict{tables: ["users"]}.
C9_S5WriteConflict ==
    [][\A w \in Threads :
          (S5AtCheck(w) /\ tpc'[w] # tpc[w]) =>
              /\ tpc'[w] = "idle"
              /\ tres'[w] = WriteConflict("commit", top[w].tx, {"users"})]_vars

C9_Witness ==
    \E w \in Threads :
        /\ tres[w] = WriteConflict("commit", 2, {"users"})
        /\ active[2] # NoTx /\ active[2].branch = "main"
        /\ WrittenTables(active[2]) = {"users"}
        /\ Len(recent) = 1 /\ recent[1].tx_id = 1 /\ recent[1].branch = "main"
        /\ WrittenTables(recent[1]) = {"users"}
        /\ latest["users"] = 1

\* C9 (as stated): in scenario S5, TX2's commit fails with
\* SnapshotConflict{table: "users", read_version: 0, current_version: 1}.
C9_S5SnapshotConflict ==
    [][\A w \in Threads :
          (S5AtCheck(w) /\ tpc'[w] # tpc[w]) =>
              /\ tpc'[w] = "idle"
              /\ tres'[w] = SnapshotConflict("commit", top[w].tx, "users", 0, 1)]_vars

\* C10: the tx_ids returned by begin, in the order the calls completed, are
\* strictly increasing, hence pairwise distinct.
C10_TxIdsUniqueMonotone ==
    \A i, j \in 1..Len(begun) : i < j => begun[i] < begun[j]

\* --------------------------------------------------- crash and recovery
PendingIds == {i.id : i \in pending}

\* C11: an intent whose process died between the write of the intent and its
\* removal was in .pending when the process died, and it stays there until a
\* recover_pending_commits call that runs after the death reads it.
C11_CrashLeavesIntent ==
    \A c \in crashed : c.present /\ (c.read \/ c.id \in PendingIds)

\* C12: in every state of a table directory, crashes between the steps of a
\* commit included, the latest pointer, when present, names a version file
\* that exists: get_version(table, None) succeeds whenever latest is present.
C12_LatestNamesExistingVersion ==
    \A t \in Tables :
        GetLatestVersionNum(t) # 0 =>
            /\ tdir[t]
            /\ vfile[t][GetLatestVersionNum(t)] # NoFile
            /\ GetVersion(t, GetLatestVersionNum(t)).version = GetLatestVersionNum(t)

\* A process died between the rename of a version file and the rename of
\* latest, on a table whose latest is present.
C12_Witness ==
    \E c \in crashed, t \in Tables :
        /\ c.at = "written"
        /\ GetLatestVersionNum(t) # 0
        /\ vfile[t][GetLatestVersionNum(t) + 1] # NoFile

\* The chunk hashes of the table's current (latest) version, NoFile when the
\* table has no version.
CurrentChunkHashes(t) ==
    IF GetLatestVersionNum(t) = 0 THEN NoFile ELSE vfile[t][GetLatestVersionNum(t)]

RecoverStep == nrec' = nrec + 1

\* C13: recover_pending_commits handles each intent it reads so: when the chunk
\* hashes of the table's current version equal the intent's, the intent is
\* removed and not reported; otherwise it is returned as an orphan and its
\* file is removed.
C13_RecoveryPerIntent ==
    [][RecoverStep =>
         /\ report'.result = "Ok"
         /\ \A i \in pending :
               /\ i \notin pending'
               /\ (i \in report'.orphaned) <=> (CurrentChunkHashes(i.table) # i.hashes)
         /\ report'.orphaned \subseteq pending]_vars

\* One recovery has dropped a stale intent and reported an orphan.
C13_Witness ==
    /\ report.result = "Ok"
    /\ report.orphaned # {}
    /\ report.dropped # {}

\* The intents of commit_next_version calls that had written their version
\* file and latest when their process died.
CompletedIds == {c.id : c \in {d \in crashed : d.at = "updated"}}

\* C14: recover_pending_commits returns only intents whose chunk hashes no
\* committed version of the table references: an intent whose commit completed
\* (version file and latest written) is never returned as an orphan, also when
\* further commits to the table completed before the recovery.
C14_CompletedNeverOrphan ==
    [][RecoverStep => \A i \in report'.orphaned : i.id \notin CompletedIds]_vars

\* commit_next_version of p returns Ok.
CnvReturnsOk(p) ==
    /\ cpc[p] = "updated"
    /\ ccall[p].kind = "next"
    /\ cpc'[p] = "idle"
    /\ okVers'[ccall[p].table] = Append(okVers[ccall[p].table], ccall[p].version)

C16_RecoveryRollsBackPending ==
    [][RecoverAndApply =>
         \A k \in TxIds :
            /\ logTx[k].status \in {"Active", "Preparing"} =>
                  logTx'[k] = [logTx[k] EXCEPT !.status = AbortedByRecovery]
            /\ logTx[k].status \notin {"Active", "Preparing"} =>
                  logTx'[k] = logTx[k]]_vars

\* A recovery has rolled back a pending record and kept a committed one.
C16_Witness ==
    /\ lreport.rolled_back # <<>>
    /\ lreport.already_committed # <<>>
    /\ \E k \in TxIds : logTx[k].status = AbortedByRecovery
    /\ \E k \in TxIds : logTx[k].status = "Committed"

\* The catalog directory and the transaction log as they are on disk.
CatalogOnDisk == <<tdir, vfile, latest, pending>>
LogOnDisk == <<logTx, latestCommitted, committedIndex>>
SeqSet(q) == {q[i] : i \in 1..Len(q)}

\* C17 (amended): a second run of recovery directly after a first leaves the
\* disk as the first run left it and finds nothing left to do: the second
\* recover_and_apply rolls nothing back and lists what the first run rolled
\* back as already aborted; the second recover_pending_commits returns no
\* orphan.
C17_SecondRunChangesNothing ==
    [][/\ (RecoverAndApply /\ lreport # NoLogReport) =>
             /\ LogOnDisk' = LogOnDisk
             /\ lreport'.rolled_back = <<>>
             /\ lreport'.already_committed = lreport.already_committed
             /\ SeqSet(lreport'.already_aborted) =
                   SeqSet(lreport.already_aborted) \cup SeqSet(lreport.rolled_back)
             /\ lreport'.transactions_scanned = lreport.transactions_scanned
       /\ \A p \in Procs : (Recover(p) /\ report # NoReport) =>
             /\ CatalogOnDisk' = CatalogOnDisk
             /\ report'.result = "Ok"
             /\ report'.orphaned = {}]_vars

\* Both recoveries have run twice in a row on a disk where the first runs had
\* a transaction to roll back and an orphan to return.
C17_Witness ==
    /\ nrec = 2 /\ nlog = 2
    /\ \E k \in TxIds : logTx[k].status = AbortedByRecovery
    /\ lreport.rolled_back = <<>>
    /\ lreport.already_aborted # <<>>
    /\ report.orphaned = {}
    /\ pending = {}

\* C17 as stated: the second run yields the same report and the same on-disk
\* state as the first.
C17_SecondRunSameReport ==
    [][/\ (RecoverAndApply /\ lreport # NoLogReport) =>
             /\ LogOnDisk' = LogOnDisk
             /\ lreport' = lreport
       /\ \A p \in Procs : (Recover(p) /\ report # NoReport) =>
             /\ CatalogOnDisk' = CatalogOnDisk
             /\ report' = report]_vars

\* ------------------------------------------------------ branch merge
\* Since the fork point base, table t changed in the head `changed` and did
\* not change in the head `kept`.
ChangedOnly(base, changed, kept, t) ==
    /\ base.some /\ base.head[t] # 0
    /\ changed[t] # base.head[t]
    /\ kept[t] = base.head[t]

\* The true conflicts of source s against target i: tables in both heads at
\* different versions that neither side alone changed since the fork point.
TrueConflicts(s, i) ==
    {t \in Tables :
        /\ heads[s][t] # 0 /\ heads[i][t] # 0 /\ heads[s][t] # heads[i][t]
        /\ ~ChangedOnly(fork[s], heads[s], heads[i], t)
        /\ ~ChangedOnly(fork[s], heads[i], heads[s], t)}

Merging(s, i) == MergeFastForward(s, i) /\ bexists[s] /\ bexists[i]

\* C18: when the diff of a source with a fork point against the target has a
\* true conflict, merge_fast_forward returns MergeConflict with the
\* conflicting tables and no stored branch changes.
C18_ConflictingMergeIsNoOp ==
    [][\A s, i \in Branches :
          (Merging(s, i) /\ fork[s].some /\ TrueConflicts(s, i) # {}) =>
              /\ mres'.result = "MergeConflict"
              /\ mres'.diff.modified = TrueConflicts(s, i)
              /\ heads' = heads /\ fork' = fork /\ bexists' = bexists]_vars

\* A merge was refused for a conflict on a table.
C18_Witness ==
    /\ mres.result = "MergeConflict"
    /\ mres.forked
    /\ mres.diff.modified # {}

\* C19: merge_fast_forward never lowers a target version: for every source,
\* with or without a fork point, every target and every table in the target's
\* head before the merge, the target's version after it is at least the one
\* before.
C19_MergeNeverLowers ==
    [][\A s, i \in Branches :
          Merging(s, i) =>
              \A t \in Tables : heads[i][t] # 0 => heads'[i][t] >= heads[i][t]]_vars

\* C20: when the source has a fork point and the diff has no true conflict,
\* the merge succeeds; the target's head afterwards has the source's version
\* for every source-only change and every table added in source, the target's
\* version for every other table, and no table is removed.
C20_ThreeWayMergeResult ==
    [][\A s, i \in Branches :
          (Merging(s, i) /\ fork[s].some /\ TrueConflicts(s, i) = {}) =>
              /\ mres'.result = "Ok"
              /\ \A t \in Tables :
                    /\ heads'[i][t] =
                          IF \/ ChangedOnly(fork[s], heads[s], heads[i], t)
                                   /\ heads[s][t] # 0 /\ heads[i][t] # 0
                             \/ heads[s][t] # 0 /\ heads[i][t] = 0
                          THEN heads[s][t] ELSE heads[i][t]
                    /\ heads[i][t] # 0 => heads'[i][t] # 0
              /\ \A b \in Branches \ {i} : heads'[b] = heads[b]]_vars

\* A three-way merge succeeded that applied a source-only change and kept a
\* target-only change.
C20_Witness ==
    /\ mres.result = "Ok"
    /\ mres.forked
    /\ mres.diff.source_only_changes # {}
    /\ mres.diff.target_only_changes # {}
    /\ \A t \in mres.diff.source_only_changes :
          heads[mres.into][t] = heads[mres.source][t]

\* C19 (amended): merge_fast_forward does not lower the target's version of a
\* table unless the source has a fork point and its own head holds the table
\* at a version below the fork point's.
C19_MergeLowersOnlySourceRegression ==
    [][\A s, i \in Branches :
          Merging(s, i) =>
              \A t \in Tables :
                 (/\ heads[i][t] # 0
                  /\ ~fork[s].some \/ heads[s][t] = 0 \/ heads[s][t] >= fork[s].head[t])
                 => heads'[i][t] >= heads[i][t]]_vars

\* A merge from a source without a fork point has kept a target version that
\* is higher than the source's.
C19_Witness ==
    /\ mres.result = "Ok"
    /\ ~mres.forked
    /\ mres.source # mres.into
    /\ \E t \in mres.diff.modified :
          /\ heads[mres.source][t] # 0
          /\ heads[mres.source][t] < heads[mres.into][t]

\* C21: when the source has no fork point the merge always succeeds and the
\* target's head afterwards maps every table of source or target to the
\* larger of the two versions, an absent entry counting as lower than any
\* version.
C21_ForwardOnlyMergeIsMax ==
    [][\A s, i \in Branches :
          (Merging(s, i) /\ ~fork[s].some) =>
              /\ mres'.result = "Ok"
              /\ \A t \in Tables :
                    heads'[i][t] = IF heads[s][t] > heads[i][t]
                                   THEN heads[s][t] ELSE heads[i][t]
              /\ \A b \in Branches \ {i} : heads'[b] = heads[b]]_vars

\* A merge from a source without a fork point has raised a target version to
\* the source's and kept a table only the target has.
C21_Witness ==
    /\ mres.result = "Ok"
    /\ ~mres.forked
    /\ mres.source # mres.into
    /\ mres.diff.added_in_target # {}
    /\ \E t \in mres.diff.modified :
          heads[mres.into][t] = heads[mres.source][t]
    /\ \A t \in mres.diff.added_in_target :
          heads[mres.into][t] # 0 /\ heads[mres.source][t] = 0

\* C22: for every stored branch and every entry (t, v) of its head, version v
\* of table t exists in the catalog: get_version(t, Some(v)) succeeds.
C22_HeadVersionsExist ==
    \A b \in Branches, t \in Tables :
        (bexists[b] /\ heads[b][t] # 0) =>
            /\ tdir[t]
            /\ heads[b][t] \in Versions
            /\ vfile[t][heads[b][t]] # NoFile

\* ------------------------------------------------------ branch names
\* C23: branch names round-trip through the file encoding: for every name
\* create accepted, list() returns exactly that name and get(name) returns the
\* branch created under it, and two distinct accepted names are never stored
\* in the same file (a create of a name not created before is not refused as
\* existing).
C23_NamesRoundTrip ==
    /\ \A r \in bstore :
          /\ BranchNameOf(r.file) = r.name
          /\ r.name \in List
          /\ Get(r.name).name = r.name
    /\ \A r \in bstore, n \in Names :
          (ValidBranchName(n) /\ n # r.name) => FileStem(n) # r.file
    /\ (cres.result = "BranchAlreadyExists") => ~cres.fresh

\* ------------------------------------------------- algebraic merge engine
\* C29: merging two Integer values under ADD or MULTIPLY whose mathematical
\* result does not fit in the integer width returns Conflict, and a Merged
\* result always carries the mathematical result, never a wrapped one.
C29_OverflowIsConflict ==
    (/\ mcall.op \in {"AbelianAdd", "AbelianMultiply"}
     /\ mcall.a.type = "Integer" /\ mcall.b.type = "Integer") =>
        LET exact == IF mcall.op = "AbelianAdd" THEN mcall.a.int + mcall.b.int
                     ELSE mcall.a.int * mcall.b.int
        IN  /\ (exact \notin Ints) => mcall.ab.kind = "Conflict"
            /\ (mcall.ab.kind = "Merged") => mcall.ab.value = Integer(exact)

C29_Witness ==
    /\ mcall.op = "AbelianAdd"
    /\ mcall.a = Integer(MaxInt) /\ mcall.b = Integer(1)
    /\ mcall.ab.kind = "Conflict"

\* C27: associativity: for every conflict-free operation type and all values
\* a, b and c, merge(op, merge(op, a, b), c) equals merge(op, a, merge(op, b, c)):
\* either both groupings are Merged with the same value, or neither is Merged.
C27_MergeAssociative ==
    IsConflictFree(mcall.op) =>
        IF mcall.left.kind = "Merged" \/ mcall.right.kind = "Merged"
        THEN mcall.left = mcall.right
        ELSE TRUE

\* The same with every single merge on the way Merged: then the groupings agree.
C27_AssociativeWhenAllMerged ==
    (/\ IsConflictFree(mcall.op)
     /\ mcall.left.kind = "Merged" /\ mcall.right.kind = "Merged") =>
        mcall.left = mcall.right

\* The keys two updates share carry one conflict-free op_type in every operation.
SharedKeysAgree(u1, u2) ==
    \A k \in Keys :
        (OpsOnKey(u1.ops, k) # <<>> /\ OpsOnKey(u2.ops, k) # <<>>) =>
            \E t \in ConflictFreeOps :
                \A i \in 1..Len(u1.ops \o u2.ops) :
                    (u1.ops \o u2.ops)[i].key = k => (u1.ops \o u2.ops)[i].op_type = t

\* C28: commutativity of merge_updates: for two updates whose shared keys carry
\* the same conflict-free op_type, merge_updates(U1, U2) and
\* merge_updates(U2, U1) both fail, or both succeed with the same value for
\* every key and the same merged clock.
C28_MergeUpdatesCommutes ==
    (ucall # NoUpdatesCall /\ SharedKeysAgree(ucall.u1, ucall.u2)) =>
        /\ ucall.r12.ok = ucall.r21.ok
        /\ ucall.r12.ok => /\ ucall.r12.ops = ucall.r21.ops
                           /\ ucall.r12.clock = ucall.r21.clock

\* ------------------------------------------------- CoordinationFreeManager
\* C26: whenever a local commit returns an error (empty transaction, an
\* operation that is not conflict-free, or a failure while applying the
\* operations to local state) the vector clock is unchanged; on success the
\* node's own entry grows by exactly one and the update carries that clock.
C26_ClockOnlyOnSuccess ==
    [][\A tx \in MgrTransactions :
          MgrCommitLocal(tx) =>
              IF mgres'.ok
              THEN /\ mgr'.clock = Tick(mgr.clock, MgrNode)
                   /\ mgres'.update.clock = mgr'.clock
              ELSE mgr'.clock = mgr.clock]_vars

\* The same without the failures of applying to local state.
C26_ClockOnValidationErrors ==
    [][\A tx \in MgrTransactions :
          MgrCommitLocal(tx) =>
              IF mgres'.ok
              THEN /\ mgr'.clock = Tick(mgr.clock, MgrNode)
                   /\ mgres'.update.clock = mgr'.clock
              ELSE (mgres'.err # "MergeError") => mgr'.clock = mgr.clock]_vars

\* C25: deduplication: receiving an update the node has received before leaves
\* its key-value state as it was, for every operation type.
C25_SecondReceiveChangesNothing ==
    [][\A u \in RemoteUpdates :
          (MgrReceiveUpdate(u) /\ \E k \in 1..Len(mgr.received) : mgr.received[k] = u) =>
              mgr'.state = mgr.state]_vars

\* ------------------------------------------------- SimulatedCluster
\* The ids of the updates committed in the cluster, and the consistency of the
\* op_types of all operations on a key.
CommittedIds == UNION {nodes[n].applied_updates : n \in NodeIds}

ConsistentOpTypes ==
    \A n, m \in NodeIds :
        \A i \in 1..Len(nodes[n].all_updates), j \in 1..Len(nodes[m].all_updates) :
            \A a \in 1..Len(nodes[n].all_updates[i].ops), b \in 1..Len(nodes[m].all_updates[j].ops) :
                LET x == nodes[n].all_updates[i].ops[a]
                    y == nodes[m].all_updates[j].ops[b]
                IN  /\ IsConflictFree(x.op_type)
                    /\ x.key = y.key => x.op_type = y.op_type

\* C24: convergence: for committed updates whose operations are all
\* conflict-free and whose keys carry consistent op_types, any two nodes that
\* have each applied every update hold the same value for every key.
C24_Convergence ==
    ConsistentOpTypes =>
        \A n, m \in NodeIds :
            (nodes[n].applied_updates = CommittedIds /\ nodes[m].applied_updates = CommittedIds)
                => \A k \in Keys : nodes[n].state[k].value = nodes[m].state[k].value

\* The same where no committed operation on a key carries MaxInt, so that no
\* merge on the way can overflow.
C24_ConvergenceWithoutOverflow ==
    (/\ ConsistentOpTypes
     /\ \A n \in NodeIds : \A i \in 1..Len(nodes[n].all_updates) :
           \A a \in 1..Len(nodes[n].all_updates[i].ops) :
               nodes[n].all_updates[i].ops[a].value # Integer(MaxInt)) =>
        \A n, m \in NodeIds :
            (nodes[n].applied_updates = CommittedIds /\ nodes[m].applied_updates = CommittedIds)
                => \A k \in Keys : nodes[n].state[k].value = nodes[m].state[k].value

\* The cluster's nodes do skip an update they have applied: after a delivery
\* no update is twice in a node's all_updates.
C25_ClusterNodesApplyOnce ==
    \A n \in NodeIds : \A i, j \in 1..Len(nodes[n].all_updates) :
        nodes[n].all_updates[i] = nodes[n].all_updates[j] => i = j

\* How often a node has applied an update, and the updates known to any node.
TimesApplied(n, u) ==
    Cardinality({i \in 1..Len(nodes[n].all_updates) : nodes[n].all_updates[i] = u})

KnownUpdates == UNION {{nodes[n].all_updates[i] : i \in 1..Len(nodes[n].all_updates)} : n \in NodeIds}

DeliveredEverywhere == \A u \in KnownUpdates : \A n \in NodeIds : TimesApplied(n, u) = 1

\* C30: multi-hop delivery: in a cluster whose links form a connected graph, an
\* update committed at any node is, after finitely many propagation rounds,
\* applied exactly once at every node, and where it is the only update every
\* node's value for its key is the committed value.
C30_MultiHopDelivery ==
    /\ [](\A u \in KnownUpdates : \A n \in NodeIds : TimesApplied(n, u) <= 1)
    /\ (~DeliveredEverywhere) ~> DeliveredEverywhere
    /\ [](\A u \in KnownUpdates :
            (KnownUpdates = {u} /\ DeliveredEverywhere) =>
                \A n \in NodeIds : nodes[n].state[u.ops[1].key].value = u.ops[1].value)

C30_Witness ==
    /\ partitions = ChainPartitions
    /\ \E u \in KnownUpdates :
          /\ u.origin = 1 /\ KnownUpdates = {u} /\ DeliveredEverywhere
          /\ nodes[NumNodes].state[u.ops[1].key].value = u.ops[1].value

\* C31: partition healing: after the partitions are healed so that the cluster
\* is connected and requeue_all_updates was called, propagation eventually
\* brings every node to having applied every update known to any node, and no
\* node ever applies an update more than once.
C31_HealingDelivers ==
    /\ [](\A u \in KnownUpdates : \A n \in NodeIds : TimesApplied(n, u) <= 1)
    /\ (phase = "requeued") ~> (phase = "requeued" /\ DeliveredEverywhere)

C31_Witness ==
    /\ phase = "requeued" /\ partitions = ChainPartitions /\ DeliveredEverywhere
    /\ \E u \in KnownUpdates :
          /\ u.origin = 1
          /\ \E v \in KnownUpdates : v.origin = NumNodes
          /\ nodes[NumNodes].all_updates[Len(nodes[NumNodes].all_updates)] = u

\* ---------------------------------------------------------------------------
\* Changelog view (TransactionManager::get_changelog)
\* ---------------------------------------------------------------------------
\* list_committed_transactions reads the lines of _committed_index in file
\* order and loads each record, skipping the ones it cannot read; the index
\* file exists as soon as one transaction has been persisted as Committed.
ListCommittedTransactions ==
    LET readable == SelectSeq(committedIndex, LAMBDA k : logTx[k] # NoTx)
    IN [i \in 1..Len(readable) |-> logTx[readable[i]]]

\* get_changelog with the since_tx_id filter only: the tx ids of the entries
\* it returns, in the order it returns them.
GetChangelog(since) ==
    LET committed == ListCommittedTransactions
        kept == SelectSeq(committed, LAMBDA tx : tx.tx_id > since)
    IN [i \in 1..Len(kept) |-> kept[i].tx_id]

StrictlyIncreasing(s) == \A i, j \in 1..Len(s) : i < j => s[i] < s[j]

\* C32: get_changelog returns its entries in strictly increasing tx_id order,
\* whatever the order in which the transactions committed.
C32_ChangelogIncreasing ==
    \A since \in 0..MaxTx : StrictlyIncreasing(GetChangelog(since))

\* The later transaction committed first and the changelog lists it first.
C32_OutOfOrder ==
    /\ Len(GetChangelog(0)) = 2
    /\ GetChangelog(0)[1] > GetChangelog(0)[2]

\* ---------------------------------------------------------------------------
\* Locks
\* ---------------------------------------------------------------------------
\* Thread w is between taking commit_lock and dropping its guard.
HoldsCommitLock(w) == tpc[w] \in {"c_apply", "c_heads", "c_persist", "c_remove"}

\* Process p is between acquire_table_lock and the drop of the lock file.
HoldsTableLock(p) == cpc[p] \in {"locked", "written", "updated"}

\* C33: a lock is released when the operation that took it returns, with Ok or
\* with an error: commit_lock is held only by a thread inside commit's
\* critical section and a table's advisory lock only by a process inside a
\* catalog commit, so that after a failed commit or a failed catalog commit the
\* next operation finds the lock free.
C33_LocksReleasedOnReturn ==
    /\ \A w \in Threads : commitLock = w => HoldsCommitLock(w)
    /\ \A t \in Tables, p \in Procs :
          lockHolder[t] = p => HoldsTableLock(p) /\ ccall[p].table = t
    /\ commitLock \in Threads \cup {NoThread}
    /\ \A t \in Tables : lockHolder[t] \in Procs \cup {NoProc}

\* Thread w1's commit failed in apply_writes and a catalog commit on a table
\* failed after writing the version file; afterwards w2 holds commit_lock and a
\* process holds the advisory lock of that table.
C33_Witness ==
    /\ tpc["w1"] = "idle" /\ tres["w1"].kind = "CatalogError"
    /\ commitLock = "w2"
    /\ \E t \in Tables, p \in Procs : dangling[t] /\ lockHolder[t] = p

\* ---------------------------------------------------------------------------
\* First committer wins
\* ---------------------------------------------------------------------------
\* The tables transactions tx1 and tx2 both write for the same branch.
CommonTables(tx1, tx2) ==
    {t \in Tables :
        \E i \in 1..Len(tx1.writes), j \in 1..Len(tx2.writes) :
            /\ tx1.writes[i].table = t /\ tx2.writes[j].table = t
            /\ WriteBranch(tx1, tx1.writes[i]) = WriteBranch(tx2, tx2.writes[j])}

\* Transactions j and k are both persisted as Committed, j before k, although
\* k holds the smaller tx_id: k's begin came before j's, so both had begun
\* before either committed.
BothCommitted(j, k) ==
    /\ k < j
    /\ logTx[j] # NoTx /\ logTx[j].status = "Committed"
    /\ logTx[k] # NoTx /\ logTx[k].status = "Committed"
    /\ \E a, b \in 1..Len(committedIndex) :
          a < b /\ committedIndex[a] = j /\ committedIndex[b] = k

\* C34: first committer wins. Of two transactions on one branch that had both
\* begun before either committed and that write a common table, at most one
\* commits; here the case where the transaction with the larger tx_id commits
\* first, which the claim includes by name.
C34_FirstCommitterWins ==
    \A j, k \in TxIds :
        BothCommitted(j, k) /\ logTx[j].branch = logTx[k].branch
            => CommonTables(logTx[j], logTx[k]) = {}

\* ---------------------------------------------------------------------------
\* Writes applied at most once
\* ---------------------------------------------------------------------------
\* The commit calls for transaction k that applied its writes and persisted it
\* as Committed: each appends one line to the committed index and returns Ok.
TimesCommitted(k) == Cardinality({i \in 1..Len(committedIndex) : committedIndex[i] = k})

\* C35: for each tx_id at most one commit call goes through, so that each of
\* the transaction's writes creates at most one catalog version, also when
\* several threads call commit for the same tx_id at once.
C35_WritesAppliedOnce ==
    \A k \in TxIds : TimesCommitted(k) <= 1

\* One transaction with a single write to users was committed twice and the
\* catalog holds two versions of users, both made from that write.
C35_WriteAppliedTwice ==
    \E k \in TxIds :
        /\ TimesCommitted(k) = 2 /\ Len(begun) = 1
        /\ Len(logTx[k].writes) = 1 /\ logTx[k].writes[1].table = "users"
        /\ latest["users"] = 2

\* ---------------------------------------------------------------------------
\* No lost head update
\* ---------------------------------------------------------------------------
\* The tables a finished call set on its branch.
TablesSet(d) == {t \in Tables : d.set[t] # 0}

\* C36: when two calls that change the head of one branch for different
\* tables both succeed, however they overlap, the stored head afterwards
\* holds what both of them set.
C36_NoLostHeadUpdate ==
    \A p, q \in Procs :
        (/\ p # q
         /\ hdone[p].ok /\ hdone[q].ok
         /\ hdone[p].branch = hdone[q].branch
         /\ TablesSet(hdone[p]) # {} /\ TablesSet(hdone[q]) # {}
         /\ TablesSet(hdone[p]) \cap TablesSet(hdone[q]) = {})
            => \A t \in TablesSet(hdone[p]) : heads[hdone[p].branch][t] = hdone[p].set[t]

\* ---------------------------------------------------------------------------
\* Versions in the persisted record
\* ---------------------------------------------------------------------------
\* C37: the new_version of each write in the record that commit persists as
\* Committed, which get_changelog reports as the change's new_version and as
\* the next change's old_version, is the version the catalog assigned to the
\* write, also when the caller's pre-computed new_version was another one.
C37_RecordHoldsAssignedVersions ==
    \A w \in Threads :
        tpc[w] = "c_remove" =>
            \A i \in 1..Len(top[w].clone.writes) :
                top[w].clone.writes[i].new_version = top[w].assigned[i]

\* C38: applying an update is all-or-nothing. When commit_local or
\* receive_update returns an error, the node's key-value state is what it was
\* before the call: no prefix of the update's operations stays applied.
C38_FailedUpdateLeavesState ==
    [][(mgres'.call \in {"commit", "receive"} /\ ~mgres'.ok) => mgr'.state = mgr.state]_vars

\* The same for the errors found before any operation is applied.
C38_RefusedCommitLeavesState ==
    [][(mgres'.call = "commit" /\ ~mgres'.ok /\ mgres'.err # "MergeError")
          => mgr'.state = mgr.state]_vars

\* ---------------------------------------------------------------------------
\* Repeated merge
\* ---------------------------------------------------------------------------
\* The last merge_fast_forward was of source s, which has a fork point, into
\* i and succeeded; since then the head of s has advanced and the head of i is
\* as that merge left it.
MergedThenAdvanced(s, i) ==
    /\ mres.result = "Ok" /\ mres.source = s /\ mres.into = i /\ mres.forked
    /\ heads[i] = mres.after[i]
    /\ heads[s] # mres.after[s]
    /\ \A t \in Tables : heads[s][t] >= mres.after[s][t]

\* C39: a second merge_fast_forward(s, i) in that situation succeeds and
\* gives the target the source's new versions.
C39_RepeatedMergeSucceeds ==
    [][\A s, i \in Branches :
          (MergedThenAdvanced(s, i) /\ MergeFastForward(s, i)) =>
              /\ mres'.result = "Ok"
              /\ \A t \in Tables :
                    heads[s][t] # mres.after[s][t] => heads'[i][t] = heads[s][t]]_vars

\* The same for the tables the first merge did not have to move: the source
\* advances only tables whose version the target still has from the fork
\* point, or that the target does not have.
C39_RepeatedMergeOfUntouchedTables ==
    [][\A s, i \in Branches :
          (/\ MergedThenAdvanced(s, i)
           /\ \A t \in Tables :
                 heads[s][t] # mres.after[s][t] =>
                     heads[i][t] = 0 \/ heads[i][t] = fork[s].head[t]
           /\ \A t \in Tables :
                 heads[s][t] = mres.after[s][t] => Classify(heads[s], heads[i], fork[s], t) # "modified"
           /\ MergeFastForward(s, i)) =>
              /\ mres'.result = "Ok"
              /\ \A t \in Tables :
                    heads[s][t] # mres.after[s][t] => heads'[i][t] = heads[s][t]]_vars

\* The same where the target holds, for every table the source advanced, the
\* version the source had at the first merge: the target has no change of its
\* own on those tables.
C39_RepeatedMergeAfterTakingSource ==
    [][\A s, i \in Branches :
          (/\ MergedThenAdvanced(s, i)
           /\ \A t \in Tables :
                 heads[s][t] # mres.after[s][t] => mres.after[i][t] = mres.after[s][t]
           /\ \A t \in Tables :
                 heads[s][t] = mres.after[s][t] => heads[i][t] = heads[s][t]
           /\ MergeFastForward(s, i)) =>
              /\ mres'.result = "Ok"
              /\ \A t \in Tables :
                    heads[s][t] # mres.after[s][t] => heads'[i][t] = heads[s][t]]_vars

\* ---------------------------------------------------------------------------
\* can_fast_forward
\* ---------------------------------------------------------------------------
\* BranchManager::can_fast_forward(source, target): !diff.has_conflicts
CanFastForward(s, i) == Diff(s, i).modified = {}

\* C40: for every pair of existing branches can_fast_forward(source, target)
\* is true exactly when merge_fast_forward(source, target), run in the same
\* state, succeeds.
C40_CanFastForwardAgrees ==
    [][\A s, i \in Branches :
          (bexists[s] /\ bexists[i] /\ MergeFastForward(s, i)) =>
              (CanFastForward(s, i) <=> mres'.result = "Ok")]_vars

\* The same for sources that have a fork point.
C40_AgreesForForkedSources ==
    [][\A s, i \in Branches :
          (bexists[s] /\ bexists[i] /\ fork[s].some /\ MergeFastForward(s, i)) =>
              (CanFastForward(s, i) <=> mres'.result = "Ok")]_vars

====
